---- MODULE Spec2Model ----
(***************************************************************************)
(* LikuBuddy auto-player: the external control loop (AutoPlayer), the      *)
(* snapshot parser (StateParser), the Dino decision engine (DinoEngine)    *)
(* and the input injector (KeySender), together with the monitored game    *)
(* process that rewrites the state file and may exit at any time.          *)
(*                                                                         *)
(* Text is modelled structurally: a state file is a record of its labelled *)
(* lines, a screen name is a sequence of characters (so that substring     *)
(* tests are computed, not assumed), optional values are sequences of      *)
(* length 0 or 1.                                                          *)
(*                                                                         *)
(* Time is in milliseconds.  The program never uses a timestamp except to  *)
(* subtract it from Date.now() and compare the difference with one of its  *)
(* intervals, so states are kept up to translation in time: Date.now() is  *)
(* pinned at Epoch, and when dt passes every stored timestamp moves dt     *)
(* into the past, not further than Epoch ms (Elapse).  A file modification *)
(* time is only compared with an earlier one, so it is kept by order: the  *)
(* n-th write of the file has mtimeMs n.                                   *)
(***************************************************************************)
EXTENDS Integers, Sequences, FiniteSets, TLC

VARIABLES
    file,       \* likubuddy-state.txt: None (missing) or Some([mtimeMs, content])
    procs,      \* OS process table: set of live process ids
    host,       \* the machine: parseMs, how long a read and parse of the file takes
    parser,     \* StateParser fields: lastModified, cachedState
    keySender,  \* KeySender fields: platform, targetPid, lastSendTime
    dinoEngine, \* DinoEngine fields: thresholds, lastJumpTime, jumpCooldown
    player,     \* AutoPlayer fields: options, running, stats
    frame,      \* locals of the suspended start() call
    pc,         \* where start() is: idle, loopTop, an await, or done
    obs         \* observations of the current run: calls made, lines printed, value returned

vars == <<file, procs, host, parser, keySender, dinoEngine, player, frame, pc, obs>>

----------------------------------------------------------------------------
(* Bounds of the exploration *)

\* Date.now() in the frame of reference of the model; no interval the program
\* compares against (jumpCooldown 400, minInterval 30, pollInterval 30) is longer
Epoch == 400
\* the state file is written this many times, its first version included
MaxWrites == 2
\* poll cycles that reach the stats-tracking code, per run
MaxCycles == 2
\* calls of KeySender.send made one after another by a caller of its own
MaxSends == 4
\* calls of StateParser.parse made by a caller of its own
MaxParses == 3

----------------------------------------------------------------------------
(* Optional values and small helpers *)

None == <<>>
Some(x) == <<x>>
IsSome(o) == o # <<>>
Val(o) == o[1]

Max(a, b) == IF a >= b THEN a ELSE b

RECURSIVE SumSeq(_)
SumSeq(s) == IF s = <<>> THEN 0 ELSE Head(s) + SumSeq(Tail(s))

\* String.prototype.includes on character sequences
Includes(s, sub) ==
    \E i \in 0..(Len(s) - Len(sub)) :
        \A j \in 1..Len(sub) : s[i + j] = sub[j]

\* String.prototype.toLowerCase, on the letters that occur in screen names
LowerChar(c) ==
    CASE c = "D" -> "d" [] c = "R" -> "r" [] c = "S" -> "s" [] c = "P" -> "p"
      [] c = "T" -> "t" [] c = "M" -> "m" [] c = "N" -> "n"
      [] OTHER -> c
ToLowerCase(s) == [i \in 1..Len(s) |-> LowerChar(s[i])]

----------------------------------------------------------------------------
(* The state file, as the game writes it *)

ScreenDinoRun == <<"P","l","a","y","i","n","g"," ","D","i","n","o","R","u","n">>
ScreenDinosaur == <<"D","i","n","o"," ","T","i","p","s">>
ScreenSnake == <<"P","l","a","y","i","n","g"," ","S","n","a","k","e">>
ScreenMenu == <<"M","a","i","n"," ","M","e","n","u">>
ScreenEmpty == <<>>

\* markers tested with content.includes(...)
Marks == {"COUNTDOWN:", "Final Score:", "Game Over", "Press ENTER to start",
          "[JUMP NOW!]", "Next Obstacle: None", "DANGER", "GAME OVER",
          "Your Turn", "You Won", "Liku Won", "Draw"}

\* A file content.  pidLine: digits after "PROCESS ID:"; screenLine: text after
\* "CURRENT SCREEN:"; score / stateWord: "Score: n" and "State: W" of the STATUS
\* line; countdown: digits after "COUNTDOWN:"; dinoY, velocity (tenths):
\* "Dino Y: n | Velocity: v"; obstacle: "Next Obstacle: Dist=d, Type=t, Y=y";
\* direction, dx, dy: the snake fields; cursor: "Cursor Position: n";
\* marks: the marker texts present.
Content(pidLine, screenLine, score, stateWord, dinoY, velocity, obstacle, marks) ==
    [pidLine |-> pidLine, screenLine |-> screenLine, score |-> score,
     stateWord |-> stateWord, countdown |-> None, dinoY |-> dinoY,
     velocity |-> velocity, obstacle |-> obstacle,
     direction |-> None, dx |-> None, dy |-> None, cursor |-> None,
     marks |-> marks]

Obst(d, t, y) == [distance |-> d, type |-> t, y |-> y]

\* process ids the game may run under: that of the session which left the state
\* file found at construction, and that of the session which writes it now
EarlierPid == 7
WriterPid == 8
GamePids == {EarlierPid, WriterPid}

\* the snapshots the game writes during a session (pid filled in by the writer)
GameContents(pid) ==
    { Content(None, ScreenEmpty, None, None, None, None, None, {}),
      Content(Some(pid), ScreenDinoRun, Some(0), Some("START"), Some(0), Some(0),
              None, {"Next Obstacle: None"}),
      Content(Some(pid), ScreenDinoRun, Some(12), Some("PLAYING"), Some(0), Some(0),
              Some(Obst(4, "CACTUS", 0)), {}),
      Content(Some(pid), ScreenDinoRun, Some(12), Some("PLAYING"), Some(0), Some(0),
              Some(Obst(12, "CACTUS", 0)), {}) }

----------------------------------------------------------------------------
(* StateParser *)

ScreenTicTacToe == <<"T","i","c","-","T","a","c","-","T","o","e">>
ScreenTicTacToePlain == <<"P","l","a","y","i","n","g"," ","T","i","c","T","a","c","T","o","e">>

Sub_dinorun == <<"d","i","n","o","r","u","n">>
Sub_dino_run == <<"d","i","n","o"," ","r","u","n">>
Sub_dino == <<"d","i","n","o">>
Sub_snake == <<"s","n","a","k","e">>
Sub_tic_tac_toe == <<"t","i","c","-","t","a","c","-","t","o","e">>
Sub_tictactoe == <<"t","i","c","t","a","c","t","o","e">>
Sub_menu == <<"m","e","n","u">>

\* kill -0 pid / tasklist: the OS process table decides
isProcessRunning(pid, table) == pid \in table

\* the fields every ParsedState carries; the game sub-records all absent
BaseState(t, pid, pidValid, screen, status, content) ==
    [timestamp |-> t, pid |-> pid, pidValid |-> pidValid, screen |-> screen,
     status |-> status, menuItems |-> None, dino |-> None, obstacle |-> None,
     dinoGameState |-> None, countdown |-> None, snake |-> None,
     tictactoe |-> None, raw |-> content]

\* the STATUS line as extracted: its "Score: n" and "State: W" parts
StatusOf(content) == [score |-> content.score, stateWord |-> content.stateWord]
EmptyStatus == [score |-> None, stateWord |-> None]

parseDinoState(content, state) ==
    LET countdownVal == IF IsSome(content.countdown) THEN Val(content.countdown) ELSE 0
        gs == IF IsSome(content.stateWord)
              THEN Val(content.stateWord)
              ELSE IF "COUNTDOWN:" \in content.marks THEN "COUNTDOWN"
              ELSE IF "Final Score:" \in content.marks \/ "Game Over" \in content.marks
                   THEN "GAME_OVER"
              ELSE IF "Press ENTER to start" \in content.marks THEN "START"
              ELSE "PLAYING"
        s1 == [state EXCEPT !.dinoGameState = Some(gs),
                            !.countdown = IF gs = "COUNTDOWN" THEN Some(countdownVal)
                                          ELSE None]
        s2 == IF IsSome(content.dinoY)
              THEN LET y == Val(content.dinoY)
                       velocity == IF IsSome(content.velocity)
                                   THEN Val(content.velocity) ELSE 0
                   IN [s1 EXCEPT !.dino = Some([y |-> y, velocity |-> velocity,
                                                isJumping |-> (y > 0 \/ velocity > 0)])]
              ELSE s1
        jumpNow == "[JUMP NOW!]" \in content.marks
    IN  IF IsSome(content.obstacle)
        THEN [s2 EXCEPT !.obstacle =
                 Some([distance |-> Val(content.obstacle).distance,
                       type |-> Val(content.obstacle).type,
                       y |-> Val(content.obstacle).y,
                       shouldJump |-> jumpNow])]
        ELSE IF "Next Obstacle: None" \in content.marks
        THEN [s2 EXCEPT !.obstacle =
                 Some([distance |-> 999, type |-> "NONE", y |-> 0,
                       shouldJump |-> FALSE])]
        ELSE s2

parseSnakeState(content, state) ==
    [state EXCEPT !.snake =
        Some([headX |-> 0, headY |-> 0,
              direction |-> IF IsSome(content.direction)
                            THEN Val(content.direction) ELSE "RIGHT",
              foodDeltaX |-> IF IsSome(content.dx) THEN Val(content.dx) ELSE 0,
              foodDeltaY |-> IF IsSome(content.dy) THEN Val(content.dy) ELSE 0,
              isDanger |-> "DANGER" \in content.marks,
              isGameOver |-> "GAME OVER" \in content.marks])]

\* the board cells are not modelled; cursor, turn, game-over and winner are
parseTicTacToeState(content, state) ==
    [state EXCEPT !.tictactoe =
        Some([cursor |-> IF IsSome(content.cursor) THEN Val(content.cursor) ELSE 4,
              turn |-> IF "Your Turn" \in content.marks THEN "X" ELSE "O",
              isGameOver |-> "Game Over" \in content.marks,
              winner |-> IF "You Won" \in content.marks THEN Some("X")
                         ELSE IF "Liku Won" \in content.marks THEN Some("O")
                         ELSE IF "Draw" \in content.marks THEN Some("DRAW")
                         ELSE None])]

\* the menu lines "[x] item" are not modelled: an empty list, nothing selected
parseMenuState(content, state) ==
    [state EXCEPT !.menuItems = Some([items |-> <<>>, selectedIndex |-> -1])]

parseContent_noEarlyReturn(content, t, table) ==
    LET pid == IF IsSome(content.pidLine) THEN Val(content.pidLine) ELSE 0
        state == BaseState(t, IF pid = 0 THEN None ELSE Some(pid),
                           isProcessRunning(pid, table),
                           content.screenLine, StatusOf(content), content)
        screen == ToLowerCase(state.screen)
    IN  IF Includes(screen, Sub_dinorun) \/ Includes(screen, Sub_dino_run)
          THEN parseDinoState(content, state)
        ELSE IF Includes(screen, Sub_snake)
          THEN parseSnakeState(content, state)
        ELSE IF Includes(screen, Sub_tic_tac_toe) \/ Includes(screen, Sub_tictactoe)
          THEN parseTicTacToeState(content, state)
        ELSE IF Includes(screen, Sub_menu)
          THEN parseMenuState(content, state)
        ELSE state

parseContent(content, t, table) ==
    LET pid == IF IsSome(content.pidLine) THEN Val(content.pidLine) ELSE 0
    IN  IF pid = 0     \* !pid: no match, or the digits read as 0
        THEN BaseState(t, None, FALSE, ScreenEmpty, EmptyStatus, content)
        ELSE
          LET state == BaseState(t, Some(pid), isProcessRunning(pid, table),
                                 content.screenLine, StatusOf(content), content)
              screen == ToLowerCase(state.screen)
          IN  IF Includes(screen, Sub_dinorun) \/ Includes(screen, Sub_dino_run)
                THEN parseDinoState(content, state)
              ELSE IF Includes(screen, Sub_snake)
                THEN parseSnakeState(content, state)
              ELSE IF Includes(screen, Sub_tic_tac_toe) \/ Includes(screen, Sub_tictactoe)
                THEN parseTicTacToeState(content, state)
              ELSE IF Includes(screen, Sub_menu)
                THEN parseMenuState(content, state)
              ELSE state

hasChanged_always(p, f) == TRUE

\* fs.statSync(...).mtimeMs > lastModified; a missing file is "not changed"
hasChanged(p, f) == IsSome(f) /\ Val(f).mtimeMs > p.lastModified

parse_cacheOnError(p, forceRefresh, f, table, t) ==
    IF ~forceRefresh /\ IsSome(p.cachedState) /\ ~hasChanged(p, f)
    THEN [parser |-> p, result |-> p.cachedState]
    ELSE IF ~IsSome(f)
    THEN [parser |-> p, result |-> p.cachedState]
    ELSE LET st == parseContent(Val(f).content, t, table)
         IN  [parser |-> [lastModified |-> Val(f).mtimeMs, cachedState |-> Some(st)],
              result |-> Some(st)]

\* parse(forceRefresh): the parser after the call and the value returned
\* (None is null).  f is the file, table the process table, t the clock.
parse(p, forceRefresh, f, table, t) ==
    IF ~forceRefresh /\ IsSome(p.cachedState) /\ ~hasChanged(p, f)
    THEN [parser |-> p, result |-> p.cachedState]
    ELSE IF ~IsSome(f)
    THEN [parser |-> p, result |-> None]
    ELSE LET st == parseContent(Val(f).content, t, table)
         IN  [parser |-> [lastModified |-> Val(f).mtimeMs, cachedState |-> Some(st)],
              result |-> Some(st)]

----------------------------------------------------------------------------
(* DinoEngine *)

\* new DinoEngine(): every option absent, so each "|| default" applies
DinoEngineNew ==
    [jumpDistanceMin |-> 2, jumpDistanceMax |-> 7, batSafeDistance |-> 3,
     jumpCooldown |-> 400, lastJumpTime |-> 0]

optionOr_keepsZero(v, d) == IF IsSome(v) THEN Val(v) ELSE d

\* "options.x || d" (lines 37-40): d when the option is absent and when it is 0
optionOr(v, d) == IF IsSome(v) /\ Val(v) # 0 THEN Val(v) ELSE d

\* new DinoEngine(options), each option a number or absent
DinoEngineWith(options) ==
    [jumpDistanceMin |-> optionOr(options.jumpDistanceMin, 2),
     jumpDistanceMax |-> optionOr(options.jumpDistanceMax, 7),
     batSafeDistance |-> optionOr(options.batSafeDistance, 3),
     jumpCooldown |-> optionOr(options.jumpCooldown, 400),
     lastJumpTime |-> 0]

\* "if (params.x !== undefined) this.x = params.x" (lines 179-182)
tuned(old, v) == IF IsSome(v) THEN Val(v) ELSE old

\* tune(params)
tune(e, params) ==
    [e EXCEPT !.jumpDistanceMin = tuned(@, params.jumpDistanceMin),
              !.jumpDistanceMax = tuned(@, params.jumpDistanceMax),
              !.batSafeDistance = tuned(@, params.batSafeDistance),
              !.jumpCooldown = tuned(@, params.jumpCooldown)]

reset_nothing(e) == e

\* reset() (lines 166-168)
reset(e) == [e EXCEPT !.lastJumpTime = 0]

\* confidence is in hundredths; reason is the message with its interpolated values
Decision(action, confidence, reason) ==
    [action |-> action, confidence |-> confidence, reason |-> reason]

inPhase_whenGrounded(state, phase) ==
    /\ state.dinoGameState = Some(phase)
    /\ ~(IsSome(state.dino) /\ Val(state.dino).isJumping)

\* lines 48, 56, 64: state.dinoGameState === phase
inPhase(state, phase) == state.dinoGameState = Some(phase)

isAirborne_heightOnly(dino) == dino.y > 0

\* line 85: dino.isJumping
isAirborne(dino) == dino.isJumping

obstacleFar_typeOnly(e, obstacle) == obstacle.type = "NONE"

\* line 94: obstacle.distance > this.jumpDistanceMax || obstacle.type === 'NONE'
obstacleFar(e, obstacle) ==
    obstacle.distance > e.jumpDistanceMax \/ obstacle.type = "NONE"

clock_snapshotTime(state, t) == state.timestamp

\* line 102: const now = Date.now()
clock(state, t) == t

cooldownActive_never(e, now) == FALSE

\* line 104: now - this.lastJumpTime < this.jumpCooldown
cooldownActive(e, now) == now - e.lastJumpTime < e.jumpCooldown

batIncoming_never(e, obstacle) == FALSE

\* lines 111-112: a BAT above the ground, further than batSafeDistance
batIncoming(e, obstacle) ==
    obstacle.type = "BAT" /\ obstacle.y > 0 /\ obstacle.distance > e.batSafeDistance

inJumpRange_exclusive(e, obstacle) ==
    /\ obstacle.y = 0
    /\ obstacle.distance > e.jumpDistanceMin
    /\ obstacle.distance < e.jumpDistanceMax

\* lines 123-125: a ground obstacle within [jumpDistanceMin, jumpDistanceMax]
inJumpRange(e, obstacle) ==
    /\ obstacle.y = 0
    /\ obstacle.distance >= e.jumpDistanceMin
    /\ obstacle.distance <= e.jumpDistanceMax

\* line 136: obstacle.shouldJump && dino.y === 0
jumpNowSignal(obstacle, dino) == obstacle.shouldJump /\ dino.y = 0

emergency_never(e, obstacle) == FALSE

\* line 146: obstacle.distance < this.jumpDistanceMin && obstacle.y === 0
emergency(e, obstacle) ==
    obstacle.distance < e.jumpDistanceMin /\ obstacle.y = 0

\* decide(state) at clock t: the engine after the call and the decision
insufficientData_jumps(e, t) ==
    [engine |-> [e EXCEPT !.lastJumpTime = t],
     decision |-> Decision("jump", 50, <<"Insufficient state data">>)]

\* lines 72-79: no dino or no obstacle in the snapshot
insufficientData(e, t) ==
    [engine |-> e,
     decision |-> Decision("none", 50, <<"Insufficient state data">>)]

decide(e, state, t) ==
    IF inPhase(state, "START")
      THEN [engine |-> e,
            decision |-> Decision("start", 100, <<"Game not started, press ENTER">>)]
    ELSE IF inPhase(state, "COUNTDOWN")
      THEN [engine |-> e,
            decision |-> Decision("wait", 100, <<"Countdown: ", state.countdown>>)]
    ELSE IF inPhase(state, "GAME_OVER")
      THEN [engine |-> e,
            decision |-> Decision("restart", 100, <<"Game over, press ENTER to restart">>)]
    ELSE IF ~IsSome(state.dino) \/ ~IsSome(state.obstacle)
      THEN insufficientData(e, t)
    ELSE
      LET dino == Val(state.dino)
          obstacle == Val(state.obstacle)
          now == clock(state, t)
          jumped == [e EXCEPT !.lastJumpTime = now]
      IN  IF isAirborne(dino)
            THEN [engine |-> e,
                  decision |-> Decision("wait", 90, <<"In air: Y=", dino.y, dino.velocity>>)]
          ELSE IF obstacleFar(e, obstacle)
            THEN [engine |-> e,
                  decision |-> Decision("wait", 80, <<"Obstacle far: dist=", obstacle.distance>>)]
          ELSE IF cooldownActive(e, now)
            THEN [engine |-> e,
                  decision |-> Decision("wait", 70, <<"Jump cooldown active">>)]
          ELSE IF batIncoming(e, obstacle)
            THEN [engine |-> e,
                  decision |-> Decision("wait", 90,
                      <<"BAT incoming, stay grounded: dist=", obstacle.distance>>)]
          ELSE IF inJumpRange(e, obstacle)
            THEN [engine |-> jumped,
                  decision |-> Decision("jump", 95,
                      <<"Ground obstacle at dist=", obstacle.distance, obstacle.type>>)]
          ELSE IF jumpNowSignal(obstacle, dino)
            THEN [engine |-> jumped,
                  decision |-> Decision("jump", 100, <<"[JUMP NOW!] signal from game">>)]
          ELSE IF emergency(e, obstacle)
            THEN [engine |-> jumped,
                  decision |-> Decision("jump", 60,
                      <<"EMERGENCY: obstacle at dist=", obstacle.distance>>)]
          ELSE [engine |-> e,
                decision |-> Decision("wait", 70,
                    <<"Monitoring: dist=", obstacle.distance, obstacle.type>>)]

----------------------------------------------------------------------------
(* KeySender *)

Platforms == {"windows", "macos", "linux"}

\* new KeySender({ minInterval: 30 }) on the given host platform
KeySenderNew(platform) ==
    [platform |-> platform, targetPid |-> None, lastSendTime |-> 0, minInterval |-> 30]

\* pid is number | null at run time
setTargetPid(ks, pid) == [ks EXCEPT !.targetPid = pid]

\* What the platform's primitive reports to send().
\* windows: send-keys.ps1 exits 1 when AppActivate fails or SendKeys throws,
\*   execSync then throws and sendWindows returns false.
\* macos: osascript sends the key code to the frontmost application; no window
\*   is looked up.
\* linux: "xdotool search ... windowactivate --sync 2>/dev/null; xdotool key k":
\*   the exit status is that of xdotool key alone.
nativeReports(platform, windowFound, keyOk) ==
    IF platform = "windows" THEN windowFound /\ keyOk ELSE keyOk

delivery_checked(platform, windowFound, keyOk) ==
    IF windowFound /\ keyOk THEN "target" ELSE "none"

\* Where the key of a native call goes.  windows: send-keys.ps1 exits before
\* SendKeys when no window was activated.  linux: "xdotool key" runs after the
\* ";" whether or not the search found a window, and types into the window in
\* focus.  macos: System Events sends the key to the frontmost application.
delivery(platform, windowFound, keyOk) ==
    IF ~keyOk THEN "none"
    ELSE IF windowFound THEN "target"
    ELSE IF platform = "windows" THEN "none"
    ELSE "focused"

sendRateLimitWait_none(ks, t) == 0

\* the rate-limit sleep send() needs at clock t (0: none)
sendRateLimitWait(ks, t) ==
    LET elapsed == t - ks.lastSendTime
    IN  IF elapsed < ks.minInterval THEN ks.minInterval - elapsed ELSE 0

----------------------------------------------------------------------------
(* AutoPlayer *)

Actions == {"jump", "wait", "start", "restart", "none"}
GameTypes == {"dino", "snake", "tictactoe", "auto"}

\* Exit after 10 consecutive invalid reads
maxInvalidReads == 10
\* loopTimes keeps the last 100 loop times
loopTimesWindow == 100

\* avgLoopTime is the quotient sum/count, kept as the pair <<sum, count>>
initStats(t) ==
    [loops |-> 0, keySends |-> 0, avgLoopTime |-> <<0, 1>>, maxLoopTime |-> 0,
     decisions |-> [a \in Actions |-> 0], startTime |-> t, gameScore |-> None]

\* new AutoPlayer(options): the "||" defaults of the constructor
AutoPlayerNew(options, t) ==
    [options |-> [game |-> options.game,
                  pollInterval |-> IF options.pollInterval = 0 THEN 30
                                   ELSE options.pollInterval,
                  verbose |-> options.verbose,
                  dryRun |-> options.dryRun,
                  maxLoops |-> options.maxLoops],
     running |-> FALSE,
     stats |-> initStats(t)]

NoFrame ==
    [loopStart |-> 0, loopTimes |-> <<>>, consecutiveInvalidReads |-> 0,
     state |-> None, key |-> None, sleepMs |-> 0]

\* what one run of start() did, reset when start() is called
NewRunObs(runs) ==
    [runs |-> runs,             \* calls of start() so far
     initial |-> "",            \* what the initial parse returned
     lastRead |-> "",           \* what the parse of the latest cycle returned
     consecutiveNulls |-> 0,    \* how many cycle parses in a row returned null
     invalidSeen |-> FALSE,     \* some cycle of the run had an invalid read
     events |-> <<>>,           \* parse, decide, injectBegin, injectEnd of the latest cycle
     injecting |-> FALSE,       \* a native key call is in progress
     overlap |-> FALSE,         \* a parse began while a native key call was in progress
     decides |-> 0,             \* calls of getDecision
     action |-> "",             \* action of the decision of the latest cycle ("": none)
     failures |-> 0,            \* native key calls that reported failure
     undelivered |-> 0,         \* native key calls whose key did not reach the game window
     strayKeys |-> 0,           \* native key calls whose key went to another window
     setTargetPidCalls |-> 0,   \* calls of KeySender.setTargetPid
     sendCalls |-> 0,           \* calls of KeySender.send
     injections |-> 0,          \* native key calls
     cyclesCounted |-> 0,       \* cycles that reached the stats tracking
     keysCounted |-> 0,         \* keys that executeDecision counted
     stopRequested |-> FALSE,   \* stop() was called during the run
     parsedAfterStop |-> FALSE, \* a parse was performed after stop()
     injectionsAfterStop |-> 0, \* native key calls begun after stop()
     summaries |-> 0,           \* how many times the final stats were printed
     summary |-> None,          \* the final stats as printed
     diag |-> "",               \* the diagnostic printed on the way out
     returned |-> None]         \* the value start() resolved with

\* the controller-side state as one value, so that a handler is a function on it
World ==
    [now |-> Epoch, parser |-> parser, keySender |-> keySender,
     dinoEngine |-> dinoEngine, player |-> player, frame |-> frame,
     pc |-> pc, obs |-> obs]

\* a timestamp dt later, seen from the pinned Date.now()
Past(t, dt) == Max(0, t - dt)
PastState(o, dt) ==
    IF IsSome(o) THEN Some([Val(o) EXCEPT !.timestamp = Past(@, dt)]) ELSE None

\* dt ms pass (a sleep, a native call).  stats.startTime is left where it is:
\* its only reader is the Runtime line of the summary, which is not modelled.
Elapse(W, dt) ==
    [W EXCEPT !.parser.cachedState = PastState(@, dt),
              !.keySender.lastSendTime = Past(@, dt),
              !.dinoEngine.lastJumpTime = Past(@, dt),
              !.frame.loopStart = Past(@, dt),
              !.frame.state = PastState(@, dt)]

returnStats_fresh(W) ==
    [W EXCEPT !.pc = "done", !.obs.returned = Some(initStats(W.now))]

\* start() returns this.stats (lines 89, 96, 190)
returnStats(W) ==
    [W EXCEPT !.pc = "done", !.obs.returned = Some(W.player.stats)]

\* what the final stats lines show: loops, keys, average and maximum loop time,
\* and the score when one is known
SummaryOf(stats) ==
    [loops |-> stats.loops, keySends |-> stats.keySends,
     avgLoopTime |-> stats.avgLoopTime, maxLoopTime |-> stats.maxLoopTime,
     gameScore |-> stats.gameScore]

finish_silent(W, why) == returnStats([W EXCEPT !.obs.diag = why])

\* lines 180-190: print the final stats, return them
finish(W, why) ==
    returnStats([W EXCEPT !.obs.summaries = @ + 1,
                          !.obs.summary = Some(SummaryOf(W.player.stats)),
                          !.obs.diag = why])

\* updateScore(state): "Score: n" in the status text
updateScore(stats, state) ==
    IF IsSome(state.status.score)
    THEN [stats EXCEPT !.gameScore = state.status.score]
    ELSE stats

\* loopTimes.push(loopTime); if (loopTimes.length > 100) loopTimes.shift()
pushLoopTime(loopTimes, loopTime) ==
    LET pushed == Append(loopTimes, loopTime)
    IN  IF Len(pushed) > loopTimesWindow THEN Tail(pushed) ELSE pushed

maxLoopsReached_offByOne(options, stats) ==
    options.maxLoops > 0 /\ stats.loops > options.maxLoops

\* options.maxLoops > 0 && stats.loops >= options.maxLoops
maxLoopsReached(options, stats) ==
    options.maxLoops > 0 /\ stats.loops >= options.maxLoops

afterDecision_fixedSleep(W) ==
    LET st1 == updateScore(W.player.stats, Val(W.frame.state))
        loopTime == W.now - W.frame.loopStart
        lts == pushLoopTime(W.frame.loopTimes, loopTime)
        st2 == [st1 EXCEPT !.loops = @ + 1,
                           !.avgLoopTime = <<SumSeq(lts), Len(lts)>>,
                           !.maxLoopTime = Max(@, loopTime)]
        W1 == [W EXCEPT !.player.stats = st2, !.frame.loopTimes = lts,
                        !.obs.cyclesCounted = @ + 1]
    IN  IF maxLoopsReached(W.player.options, st2)
          THEN finish(W1, "Max loops reached")
        ELSE [W1 EXCEPT !.pc = "pacing",
                        !.frame.sleepMs = W.player.options.pollInterval]

\* lines 154-177: score, stats tracking, stop condition, pacing
afterDecision(W) ==
    LET st1 == updateScore(W.player.stats, Val(W.frame.state))
        loopTime == W.now - W.frame.loopStart
        lts == pushLoopTime(W.frame.loopTimes, loopTime)
        st2 == [st1 EXCEPT !.loops = @ + 1,
                           !.avgLoopTime = <<SumSeq(lts), Len(lts)>>,
                           !.maxLoopTime = Max(@, loopTime)]
        W1 == [W EXCEPT !.player.stats = st2, !.frame.loopTimes = lts,
                        !.obs.cyclesCounted = @ + 1]
        elapsed == W.now - W.frame.loopStart
        waitTime == Max(0, W.player.options.pollInterval - elapsed)
    IN  IF maxLoopsReached(W.player.options, st2)
          THEN finish(W1, "Max loops reached")
        ELSE IF waitTime > 0
          THEN [W1 EXCEPT !.pc = "pacing", !.frame.sleepMs = waitTime]
        ELSE [W1 EXCEPT !.pc = "loopTop"]

sendDone_countsFailures(W, success) ==
    afterDecision([W EXCEPT !.obs.injecting = FALSE,
                            !.obs.failures = IF success THEN @ ELSE @ + 1,
                            !.obs.events = Append(@, "injectEnd"),
                            !.player.stats.keySends = @ + 1,
                            !.obs.keysCounted = @ + 1])

\* lines 260-263: send() resolved with success; count the key, go on with the cycle
sendDone(W, success) ==
    LET W1 == [W EXCEPT !.obs.injecting = FALSE,
                        !.obs.failures = IF success THEN @ ELSE @ + 1,
                        !.obs.events = Append(@, "injectEnd")]
    IN  afterDecision(IF success
                      THEN [W1 EXCEPT !.player.stats.keySends = @ + 1,
                                      !.obs.keysCounted = @ + 1]
                      ELSE W1)

\* the native call is over: what it did and what send() resolves with
nativeOutcome(W, E) ==
    sendDone([W EXCEPT !.obs.undelivered =
                           IF E.windowFound /\ E.keyOk THEN @ ELSE @ + 1,
                       !.obs.strayKeys =
                           IF delivery(W.keySender.platform, E.windowFound,
                                       E.keyOk) = "focused"
                           THEN @ + 1 ELSE @],
             nativeReports(W.keySender.platform, E.windowFound, E.keyOk))

sendDispatch_noAwait(W, E) ==
    afterDecision([W EXCEPT !.keySender.lastSendTime = W.now,
                            !.obs.injections = @ + 1,
                            !.obs.injecting = TRUE,
                            !.obs.events = Append(@, "injectBegin")])

\* send() past the rate limit: stamp lastSendTime and call the platform's primitive.
\* On Windows the primitive is execSync: it has returned (after nativeDur, with
\* nativeOk) before anything else runs.  On macOS and Linux it is exec: start()
\* stays suspended until the callback.
sendDispatch(W, E) ==
    LET W1 == [W EXCEPT !.keySender.lastSendTime = W.now,
                        !.obs.injections = @ + 1,
                        !.obs.injecting = TRUE,
                        !.obs.events = Append(@, "injectBegin"),
                        !.obs.injectionsAfterStop =
                            IF W.obs.stopRequested THEN @ + 1 ELSE @]
    IN  IF W.keySender.platform = "windows"
        THEN nativeOutcome(Elapse(W1, E.nativeDur), E)
        ELSE [W1 EXCEPT !.pc = "sendNative"]

\* KeySender.send(key), up to its first real suspension
send(W, key, E) ==
    LET wait == sendRateLimitWait(W.keySender, W.now)
        W1 == [W EXCEPT !.obs.sendCalls = @ + 1, !.frame.key = Some(key)]
    IN  IF wait > 0
        THEN [W1 EXCEPT !.pc = "sendRateSleep", !.frame.sleepMs = wait]
        ELSE sendDispatch(W1, E)

keyOf_waitSendsKey(action) ==
    CASE action \in {"jump", "wait"} -> Some("space")
      [] action \in {"start", "restart"} -> Some("enter")
      [] OTHER -> None

\* the switch of executeDecision: the key of an action (None: no key needed)
keyOf(action) ==
    CASE action = "jump" -> Some("space")
      [] action \in {"start", "restart"} -> Some("enter")
      [] OTHER -> None

executeDecision_ignoresDryRun(W, decision, E) ==
    LET W1 == [W EXCEPT !.player.stats.decisions[decision.action] = @ + 1]
        key == keyOf(decision.action)
    IN  IF IsSome(key) THEN send(W1, Val(key), E) ELSE afterDecision(W1)

\* executeDecision(decision, gameType) and the rest of the cycle behind it
executeDecision(W, decision, E) ==
    LET W1 == [W EXCEPT !.player.stats.decisions[decision.action] = @ + 1]
        key == keyOf(decision.action)
    IN  IF IsSome(key)
        THEN IF ~W.player.options.dryRun
             THEN send(W1, Val(key), E)
             ELSE afterDecision([W1 EXCEPT !.player.stats.keySends = @ + 1,
                                           !.obs.keysCounted = @ + 1])
        ELSE afterDecision(W1)

detectGame_always(state) == "dino"

\* lines 204-210
detectGame(state) ==
    LET screen == ToLowerCase(state.screen)
    IN  IF Includes(screen, Sub_dino) THEN "dino"
        ELSE IF Includes(screen, Sub_snake) THEN "snake"
        ELSE IF Includes(screen, Sub_tic_tac_toe) THEN "tictactoe"
        ELSE "auto"

getDecision_dinoFallback(e, gameType, state, t) ==
    LET r == decide(e, state, t)
    IN  [engine |-> r.engine, decision |-> Some(r.decision)]

\* getDecision(gameType, state) at clock t: the engine after the call and the
\* decision, None for null
getDecision(e, gameType, state, t) ==
    IF gameType = "dino"
    THEN LET r == decide(e, state, t)
         IN  [engine |-> r.engine, decision |-> Some(r.decision)]
    ELSE [engine |-> e, decision |-> None]

invalidRead_nullOnly(result) == ~IsSome(result)

\* line 116: !state || !state.pid
invalidRead(result) == ~IsSome(result) \/ ~IsSome(Val(result).pid)

\* line 117: consecutiveInvalidReads++
countInvalidRead(n) == n + 1

resetInvalidReads_kept(n) == n

\* line 127: consecutiveInvalidReads = 0
resetInvalidReads(n) == 0

\* what a parse returned: null, a snapshot without pid, one whose process is
\* gone, or one whose process is live
ReadKind(result) ==
    IF ~IsSome(result) THEN "null"
    ELSE IF ~IsSome(Val(result).pid) THEN "noPid"
    ELSE IF ~Val(result).pidValid THEN "dead"
    ELSE "live"

tooManyInvalidReads_offByOne(n) == n > maxInvalidReads

\* line 118: consecutiveInvalidReads >= maxInvalidReads
tooManyInvalidReads(n) == n >= maxInvalidReads

rebindTarget_skipped(ks, state) == ks

\* line 137: if (state.pid) this.keySender.setTargetPid(state.pid)
rebindTarget(ks, state) ==
    IF IsSome(state.pid) THEN setTargetPid(ks, state.pid) ELSE ks

targetExited_ignored(state) == FALSE

\* line 130 (and line 92 for the initial state): !state.pidValid
targetExited(state) == ~state.pidValid

loopContinues_always(p) == TRUE

\* line 109: while (this.running)
loopContinues(p) == p.running

\* What the environment hands to one synchronous stretch of the controller:
\* the file as read (None when the read throws), the process table, how long
\* the parse takes, how long the native key call takes, whether the game's
\* window is found by its title, and whether the key-sending command itself works.
EnvIn(f, table, parseDur, nativeDur, windowFound, keyOk) ==
    [file |-> f, procs |-> table, parseDur |-> parseDur,
     nativeDur |-> nativeDur, windowFound |-> windowFound, keyOk |-> keyOk]

\* lines 109-152: the top of the loop and one cycle, up to its first suspension
loopCycle(W, E) ==
    IF ~loopContinues(W.player)
    THEN finish(W, "stopped")
    ELSE
      LET pr == parse(W.parser, TRUE, E.file, E.procs, W.now)
          W1 == Elapse(
                [W EXCEPT !.parser = pr.parser,
                          !.frame.loopStart = W.now,
                          !.frame.state = pr.result,
                          !.frame.key = None,
                          !.obs.parsedAfterStop = @ \/ W.obs.stopRequested,
                          !.obs.overlap = @ \/ W.obs.injecting,
                          !.obs.lastRead = ReadKind(pr.result),
                          !.obs.consecutiveNulls =
                              IF IsSome(pr.result) THEN 0 ELSE @ + 1,
                          !.obs.invalidSeen = @ \/ invalidRead(pr.result),
                          !.obs.action = "",
                          !.obs.events = <<"parse">>], E.parseDur)
      IN  IF invalidRead(pr.result)
          THEN LET n == countInvalidRead(W.frame.consecutiveInvalidReads)
                   W2 == [W1 EXCEPT !.frame.consecutiveInvalidReads = n]
               IN  IF tooManyInvalidReads(n)
                   THEN finish(W2, "Cannot read state file - game may have exited")
                   ELSE [W2 EXCEPT !.pc = "sleepInvalid",
                                   !.frame.sleepMs = W.player.options.pollInterval]
          ELSE LET state == Val(pr.result)
                   W2 == [W1 EXCEPT !.frame.consecutiveInvalidReads =
                                        resetInvalidReads(@)]
               IN  IF targetExited(state)
                   THEN finish(W2, "Game process exited")
                   ELSE
                     LET gameType == IF W.player.options.game = "auto"
                                     THEN detectGame(state)
                                     ELSE W.player.options.game
                         gd == getDecision(W1.dinoEngine, gameType, state, W1.now)
                         W3 == [W2 EXCEPT
                                  !.keySender = rebindTarget(@, state),
                                  !.dinoEngine = gd.engine,
                                  !.obs.setTargetPidCalls =
                                      IF IsSome(state.pid) THEN @ + 1 ELSE @,
                                  !.obs.decides = @ + 1,
                                  !.obs.action = IF IsSome(gd.decision)
                                                 THEN Val(gd.decision).action
                                                 ELSE "",
                                  !.obs.events = Append(@, "decide")]
                     IN  IF IsSome(gd.decision)
                         THEN executeDecision(W3, Val(gd.decision), E)
                         ELSE afterDecision(W3)

stop_resetsStats(p, t) == [p EXCEPT !.running = FALSE, !.stats = initStats(t)]

\* lines 196-199: stop() clears the running flag and nothing else
stop(p, t) == [p EXCEPT !.running = FALSE]

\* lines 75-106: start() up to the loop
startRun(W, E) ==
    LET pr == parse(W.parser, TRUE, E.file, E.procs, W.now)
        W1 == [W EXCEPT !.player.running = TRUE,
                        !.player.stats = initStats(W.now),
                        !.parser = pr.parser,
                        !.frame = NoFrame,
                        !.obs = [NewRunObs(W.obs.runs + 1) EXCEPT
                                    !.initial = ReadKind(pr.result)]]
    IN  IF ~IsSome(pr.result)
          THEN returnStats([W1 EXCEPT
                   !.obs.diag = "Cannot read state file - is LikuBuddy running?"])
        ELSE IF targetExited(Val(pr.result))
          THEN returnStats([W1 EXCEPT
                   !.obs.diag = "Game process not running (stale state file)"])
        ELSE [W1 EXCEPT !.keySender = setTargetPid(@, Val(pr.result).pid),
                        !.obs.setTargetPidCalls = @ + 1,
                        !.pc = "loopTop"]

----------------------------------------------------------------------------
(* The state machine *)

\* how long a native key call takes
NativeDurations == {0, 30}
\* how long statSync, readFileSync and parseContent take together on a host
ParseDurations == {0, 5}

\* the command lines the controller is started with (pollInterval 0: --poll not given)
Options(game, pollInterval, dryRun, maxLoops) ==
    [game |-> game, pollInterval |-> pollInterval, verbose |-> FALSE,
     dryRun |-> dryRun, maxLoops |-> maxLoops]

\* the deployments explored: host platform, its parse time, and command line
Deployments ==
    { [platform |-> "windows", parseMs |-> 0,
       options |-> Options("auto", 0, FALSE, 0)],
      [platform |-> "linux", parseMs |-> 5,
       options |-> Options("dino", 10, FALSE, 2)],
      [platform |-> "macos", parseMs |-> 0,
       options |-> Options("auto", 0, TRUE, 2)],
      [platform |-> "macos", parseMs |-> 5,
       options |-> Options("dino", 0, FALSE, 1)],
      [platform |-> "linux", parseMs |-> 0,
       options |-> Options("snake", 0, TRUE, 2)] }

\* the state file when the controller is constructed: missing, cut off before
\* the PROCESS ID line, or a complete menu snapshot
InitialContents ==
    { Content(None, ScreenEmpty, None, None, None, None, None, {}),
      Content(Some(EarlierPid), ScreenMenu, None, None, None, None, None, {}) }

SuspendedPcs == {"sleepInvalid", "sendRateSleep", "sendNative", "pacing"}

\* The controller looks at the file and the process table only in start() and at
\* the top of a cycle, so a change of either is placed right before the read
\* that first sees it.
EnvTurn == pc \in {"idle", "loopTop"}

\* the controller's variables take the fields of w, W evaluated once
Apply(W) ==
    \E w \in {W} :
    /\ parser' = w.parser
    /\ keySender' = w.keySender
    /\ dinoEngine' = w.dinoEngine
    /\ player' = w.player
    /\ frame' = w.frame
    /\ pc' = w.pc
    /\ obs' = w.obs

Init ==
    /\ procs \in SUBSET GamePids
    /\ file \in {None} \cup
                { Some([mtimeMs |-> 1, content |-> c]) : c \in InitialContents }
    /\ parser = [lastModified |-> 0, cachedState |-> None]
    /\ \E dep \in Deployments :
          /\ host = [parseMs |-> dep.parseMs]
          /\ keySender = KeySenderNew(dep.platform)
          /\ player = AutoPlayerNew(dep.options, Epoch)
    /\ dinoEngine = DinoEngineNew
    /\ frame = NoFrame
    /\ pc = "idle"
    /\ obs = NewRunObs(0)

\* the file as a read sees it: statSync/readFileSync throw unless readOk
FileRead(readOk) == IF readOk THEN file ELSE None

\* someone calls player.start()
Start ==
    /\ pc = "idle"
    /\ \E readOk \in BOOLEAN :
          Apply(startRun(World, EnvIn(FileRead(readOk), procs, 0, 0, TRUE, TRUE)))
    /\ UNCHANGED <<file, procs, host>>

\* the loop test and one cycle, run without interruption up to the next await
Cycle ==
    /\ pc = "loopTop"
    /\ loopContinues(player) => player.stats.loops < MaxCycles
    /\ \E readOk \in BOOLEAN, nativeDur \in NativeDurations,
          windowFound \in BOOLEAN, keyOk \in BOOLEAN :
          Apply(loopCycle(World, EnvIn(FileRead(readOk), procs, host.parseMs,
                                       nativeDur, windowFound, keyOk)))
    /\ UNCHANGED <<file, procs, host>>

\* sleep(ms) is setTimeout(resolve, ms): a delay below 1 ms is run as 1 ms
timerDelay(ms) == IF ms < 1 THEN 1 ELSE ms

\* the sleep after an invalid read is over
WakeInvalid ==
    /\ pc = "sleepInvalid"
    /\ Apply([Elapse(World, timerDelay(frame.sleepMs)) EXCEPT !.pc = "loopTop"])
    /\ UNCHANGED <<file, procs, host>>

\* the pacing sleep at the end of a cycle is over
WakePacing ==
    /\ pc = "pacing"
    /\ Apply([Elapse(World, timerDelay(frame.sleepMs)) EXCEPT !.pc = "loopTop"])
    /\ UNCHANGED <<file, procs, host>>

\* the rate-limit sleep inside send() is over: send the key
WakeRateSleep ==
    /\ pc = "sendRateSleep"
    /\ \E nativeDur \in NativeDurations, windowFound \in BOOLEAN,
          keyOk \in BOOLEAN :
          Apply(sendDispatch(Elapse(World, frame.sleepMs),
                             EnvIn(None, procs, 0, nativeDur, windowFound, keyOk)))
    /\ UNCHANGED <<file, procs, host>>

\* the exec callback of sendMacOS / sendLinux fires
NativeDone ==
    /\ pc = "sendNative"
    /\ \E nativeDur \in NativeDurations, windowFound \in BOOLEAN,
          keyOk \in BOOLEAN :
          Apply(nativeOutcome(Elapse(World, nativeDur),
                              EnvIn(None, procs, 0, nativeDur, windowFound, keyOk)))
    /\ UNCHANGED <<file, procs, host>>

\* stop(), from the signal handlers of cli.ts or from any other callback: it can
\* only run while start() is suspended
Stop ==
    /\ pc \in SuspendedPcs
    /\ player.running
    /\ player' = stop(player, Epoch)
    /\ obs' = [obs EXCEPT !.stopRequested = TRUE]
    /\ UNCHANGED <<file, procs, host, parser, keySender, dinoEngine, frame, pc>>

\* the game rewrites the state file
GameWrites ==
    /\ EnvTurn
    /\ LET mtimeMs == IF IsSome(file) THEN Val(file).mtimeMs + 1 ELSE 1
       IN  /\ mtimeMs <= MaxWrites
           /\ \E pid \in procs \cap {WriterPid} : \E c \in GameContents(pid) :
                  file' = Some([mtimeMs |-> mtimeMs, content |-> c])
    /\ UNCHANGED <<procs, host, parser, keySender, dinoEngine, player, frame, pc, obs>>

\* the game process exits
GameExits ==
    /\ EnvTurn
    /\ \E pid \in procs : procs' = procs \ {pid}
    /\ UNCHANGED <<file, host, parser, keySender, dinoEngine, player, frame, pc, obs>>

Next ==
    \/ Start
    \/ Cycle
    \/ WakeInvalid
    \/ WakePacing
    \/ WakeRateSleep
    \/ NativeDone
    \/ Stop
    \/ GameWrites
    \/ GameExits

Spec == Init /\ [][Next]_vars

\* Every sleep ends, every native key call completes, and the synchronous code
\* behind them runs.  Nothing is assumed of stop() or of the game.
Fairness ==
    /\ WF_vars(Cycle)
    /\ WF_vars(WakeInvalid)
    /\ WF_vars(WakePacing)
    /\ WF_vars(WakeRateSleep)
    /\ WF_vars(NativeDone)

FairSpec == Spec /\ Fairness

TypeOK ==
    /\ pc \in {"idle", "loopTop", "done"} \cup SuspendedPcs
    /\ player.stats.loops <= MaxCycles

----------------------------------------------------------------------------
(* Claims about the control loop *)

----------------------------------------------------------------------------
(* KeySender.send called in sequence *)

\* A caller of its own (as sendSequence, lines 373-380) awaits one send() after
\* another on one KeySender.  frame.loopStart is the caller's "start =
\* Date.now()", taken before the first call; pc is "idle" between calls.  The
\* rate limit of send() (lines 270-277) is the same on every platform; the
\* callers here run on the platforms whose primitive is awaited (exec).

\* what the caller lets pass between the return of a call and the next call
CallerDelays == {0, 10}

SendEnv == EnvIn(None, {}, 0, 0, TRUE, TRUE)

SendInit ==
    /\ file = None
    /\ procs = {}
    /\ host = [parseMs |-> 0]
    /\ parser = [lastModified |-> 0, cachedState |-> None]
    /\ \E platform \in {"macos", "linux"} : keySender = KeySenderNew(platform)
    /\ dinoEngine = DinoEngineNew
    /\ player = AutoPlayerNew(Options("auto", 0, FALSE, 0), Epoch)
    /\ frame = [NoFrame EXCEPT !.loopStart = Epoch]
    /\ pc = "idle"
    /\ obs = NewRunObs(0)

\* await keySender.send(key), up to its first suspension
SendCall ==
    /\ pc = "idle"
    /\ obs.sendCalls < MaxSends
    /\ \E delay \in CallerDelays, key \in {"space", "enter"} :
          Apply(send(Elapse(World, delay), key, SendEnv))
    /\ UNCHANGED <<file, procs, host>>

\* the rate-limit sleep of send() is over
SendWake ==
    /\ pc = "sendRateSleep"
    /\ Apply(sendDispatch(Elapse(World, frame.sleepMs), SendEnv))
    /\ UNCHANGED <<file, procs, host>>

\* the exec callback fires and send() resolves
SendReturns ==
    /\ pc = "sendNative"
    /\ \E nativeDur \in NativeDurations :
          Apply([Elapse(World, nativeDur) EXCEPT !.pc = "idle",
                                                  !.obs.injecting = FALSE])
    /\ UNCHANGED <<file, procs, host>>

SendNext == SendCall \/ SendWake \/ SendReturns

SendSpec == SendInit /\ [][SendNext]_vars

----------------------------------------------------------------------------
(* StateParser.parse called by a caller of its own *)

\* A caller holds one StateParser and calls parse() and parse(true) while the
\* game rewrites the file, the game's process exits and time passes.  obs is
\* what the latest call was given and what it returned.

\* the texts the file can hold when the parser is constructed
ParserContents ==
    { Content(pidLine, screenLine, Some(12), Some("PLAYING"), Some(0), Some(0),
              Some(Obst(4, "CACTUS", 0)), marks) :
        pidLine \in {None, Some(0), Some(WriterPid)},
        screenLine \in {ScreenDinoRun, ScreenDinosaur, ScreenSnake,
                        ScreenTicTacToe, ScreenTicTacToePlain, ScreenMenu,
                        ScreenEmpty},
        marks \in {{}, {"COUNTDOWN:"}} }

\* the age up to which the cached snapshot is followed
MaxAge == 10

NoParseObs ==
    [calls |-> 0, forced |-> FALSE, readable |-> FALSE, hits |-> 0, result |-> None]

ParserInit ==
    /\ procs \in SUBSET {WriterPid}
    /\ file \in {None} \cup
                { Some([mtimeMs |-> 1, content |-> c]) : c \in ParserContents }
    /\ host = [parseMs |-> 0]
    /\ parser = [lastModified |-> 0, cachedState |-> None]
    /\ keySender = KeySenderNew("linux")
    /\ dinoEngine = DinoEngineNew
    /\ player = AutoPlayerNew(Options("auto", 0, FALSE, 0), Epoch)
    /\ frame = NoFrame
    /\ pc = "idle"
    /\ obs = NoParseObs

\* parser.parse(forceRefresh); the file cannot be read unless readOk
ParseCall ==
    /\ obs.calls < MaxParses
    /\ \E forceRefresh \in BOOLEAN, readOk \in BOOLEAN :
          LET r == parse(parser, forceRefresh, FileRead(readOk), procs, Epoch)
          IN  /\ parser' = r.parser
              /\ obs' = [calls |-> obs.calls + 1,
                         forced |-> forceRefresh,
                         readable |-> IsSome(FileRead(readOk)),
                         hits |-> IF ~forceRefresh /\ IsSome(parser.cachedState)
                                     /\ r.result = parser.cachedState
                                     /\ r.parser = parser
                                  THEN obs.hits + 1 ELSE 0,
                         result |-> r.result]
    /\ UNCHANGED <<file, procs, host, keySender, dinoEngine, player, frame, pc>>

\* time passes between two calls
ParserTick ==
    /\ IsSome(parser.cachedState)
    /\ Epoch - Val(parser.cachedState).timestamp < MaxAge
    /\ parser' = Elapse(World, MaxAge).parser
    /\ UNCHANGED <<file, procs, host, keySender, dinoEngine, player, frame, pc, obs>>

ParserNext == ParseCall \/ ParserTick \/ GameWrites \/ GameExits

ParserSpec == ParserInit /\ [][ParserNext]_vars

----------------------------------------------------------------------------
(* The command line: cli.ts *)

\* parseInt(text, 10) on a character sequence: leading blanks are skipped, a
\* sign is taken, the digits up to the first other character are the value;
\* None is NaN
DigitValue(c) ==
    CASE c = "0" -> 0 [] c = "1" -> 1 [] c = "2" -> 2 [] c = "3" -> 3
      [] c = "4" -> 4 [] c = "5" -> 5 [] c = "6" -> 6 [] c = "7" -> 7
      [] c = "8" -> 8 [] c = "9" -> 9 [] OTHER -> -1

RECURSIVE SkipBlanks(_, _)
SkipBlanks(s, i) ==
    IF i <= Len(s) /\ s[i] = " " THEN SkipBlanks(s, i + 1) ELSE i

RECURSIVE LeadingDigits(_, _, _)
LeadingDigits(s, i, acc) ==
    IF i > Len(s) \/ DigitValue(s[i]) < 0
    THEN acc
    ELSE LeadingDigits(s, i + 1,
             Some(10 * (IF IsSome(acc) THEN Val(acc) ELSE 0) + DigitValue(s[i])))

parseInt(s) ==
    LET first == SkipBlanks(s, 1)
        signed == first <= Len(s) /\ s[first] \in {"-", "+"}
        digits == LeadingDigits(s, IF signed THEN first + 1 ELSE first, None)
    IN  IF ~IsSome(digits) THEN None
        ELSE IF signed /\ s[first] = "-" THEN Some(0 - Val(digits))
        ELSE digits

orDefault_always(n, d) == d

\* "parseInt(...) || d": NaN and 0 are falsy
orDefault(n, d) == IF ~IsSome(n) \/ Val(n) = 0 THEN d ELSE Val(n)

\* the names --game accepts
GameNames ==
    [dino |-> <<"d","i","n","o">>, snake |-> <<"s","n","a","k","e">>,
     tictactoe |-> <<"t","i","c","t","a","c","t","o","e">>,
     auto |-> <<"a","u","t","o">>]

\* A command line: for --game, --poll and --max-loops the text that follows the
\* flag, None when the flag is not given; whether --dry-run and --help are given
ArgV(game, poll, maxLoops, dryRun, help) ==
    [game |-> game, poll |-> poll, maxLoops |-> maxLoops, dryRun |-> dryRun,
     help |-> help]

\* parseArgs(): the result starts from the defaults; a flag whose value is not
\* accepted leaves its default
parseArgs(argv) ==
    [game |-> IF IsSome(argv.game)
                 /\ \E g \in GameTypes : GameNames[g] = ToLowerCase(Val(argv.game))
              THEN CHOOSE g \in GameTypes : GameNames[g] = ToLowerCase(Val(argv.game))
              ELSE "auto",
     pollInterval |-> IF IsSome(argv.poll)
                      THEN orDefault(parseInt(Val(argv.poll)), 30) ELSE 30,
     verbose |-> FALSE,
     dryRun |-> argv.dryRun,
     maxLoops |-> IF IsSome(argv.maxLoops)
                  THEN orDefault(parseInt(Val(argv.maxLoops)), 0) ELSE 0,
     help |-> argv.help]

\* main(): help prints and exits; otherwise the player is constructed from the
\* parsed options and start() is called
cliMain(W, argv, E) ==
    LET args == parseArgs(argv)
    IN  IF args.help
        THEN [W EXCEPT !.pc = "exited"]
        ELSE startRun([W EXCEPT !.player =
                          AutoPlayerNew([game |-> args.game,
                                         pollInterval |-> args.pollInterval,
                                         verbose |-> args.verbose,
                                         dryRun |-> args.dryRun,
                                         maxLoops |-> args.maxLoops], W.now)], E)

\* the texts tried after each flag
GameTexts == { <<"d","i","n","o">>, <<"S","n","a","k","e">>, <<"c","h","e","s","s">> }
PollTexts == { <<"1","0">>, <<"a","b","c">>, <<"0">>, <<"-","5">>, <<"1","0","m","s">> }
MaxLoopsTexts == { <<"2">>, <<"a","b","c">>, <<"-","3">> }

\* the command line "--game dino --poll 10 --max-loops 2" and the ones that
\* differ from it in one flag; the empty command line
UsualArgV == ArgV(Some(<<"d","i","n","o">>), Some(<<"1","0">>), Some(<<"2">>), FALSE, FALSE)

CommandLines ==
    { ArgV(None, None, None, FALSE, FALSE) } \cup
    { [UsualArgV EXCEPT !.game = g] : g \in {None} \cup {Some(t) : t \in GameTexts} } \cup
    { [UsualArgV EXCEPT !.poll = p] : p \in {None} \cup {Some(t) : t \in PollTexts} } \cup
    { [UsualArgV EXCEPT !.maxLoops = m] :
         m \in {None} \cup {Some(t) : t \in MaxLoopsTexts} } \cup
    { [UsualArgV EXCEPT !.dryRun = TRUE], [UsualArgV EXCEPT !.help = TRUE] }

\* node cli.ts <command line>, the game running and its state file written
CliInit ==
    /\ procs = {WriterPid}
    /\ file \in { Some([mtimeMs |-> 1, content |-> c]) : c \in GameContents(WriterPid) }
    /\ \E argv \in CommandLines : host = [parseMs |-> 0, argv |-> argv]
    /\ parser = [lastModified |-> 0, cachedState |-> None]
    /\ keySender = KeySenderNew("linux")
    /\ dinoEngine = DinoEngineNew
    /\ player = AutoPlayerNew(Options("auto", 0, FALSE, 0), Epoch)
    /\ frame = NoFrame
    /\ pc = "cli"
    /\ obs = NewRunObs(0)

\* main() runs, up to the first suspension of start()
CliMain ==
    /\ pc = "cli"
    /\ \E readOk \in BOOLEAN :
          Apply(cliMain(World, host.argv,
                        EnvIn(FileRead(readOk), procs, 0, 0, TRUE, TRUE)))
    /\ UNCHANGED <<file, procs, host>>

CliNext ==
    \/ CliMain
    \/ Cycle
    \/ WakeInvalid
    \/ WakePacing
    \/ WakeRateSleep
    \/ NativeDone
    \/ Stop
    \/ GameExits

CliSpec == CliInit /\ [][CliNext]_vars

----------------------------------------------------------------------------
(* DinoEngine.decide called by a caller of its own *)

\* A caller holds one DinoEngine, parses Dino Run texts and hands each snapshot
\* to decide(), letting time pass between the calls.  obs is the snapshot of the
\* latest call, the decision it returned, and the caller's own measure of the
\* time since the latest jump decision.

Phases == {"START", "PLAYING", "COUNTDOWN", "GAME_OVER"}

\* the "Dino Y: y | Velocity: v" line (v in tenths): absent, on the ground at
\* rest, on the ground taking off, in the air and falling
DinoLines ==
    { <<None, None>>, <<Some(0), Some(0)>>, <<Some(0), Some(5)>>,
      <<Some(2), Some(-5)>> }

\* the "Next Obstacle" line with the [JUMP NOW!] marker or without: absent,
\* "None", or a cactus or bat on the ground or at height 3
ObstacleDistances == {1, 2, 3, 4, 7, 8, 12}
ObstacleLines ==
    { <<None, {}>>, <<None, {"Next Obstacle: None"}>> } \cup
    { <<Some(Obst(d, t, y)), m>> :
        d \in ObstacleDistances, t \in {"CACTUS", "BAT"}, y \in {0, 3},
        m \in {{}, {"[JUMP NOW!]"}} }

\* the obstacle lines tried in the phases other than PLAYING
FewObstacleLines ==
    { <<None, {}>>, <<None, {"Next Obstacle: None"}>>,
      <<Some(Obst(4, "CACTUS", 0)), {}>>,
      <<Some(Obst(4, "CACTUS", 0)), {"[JUMP NOW!]"}>>,
      <<Some(Obst(1, "BAT", 3)), {"[JUMP NOW!]"}>> }

DinoText(phase, d, o) ==
    Content(Some(WriterPid), ScreenDinoRun, Some(12), Some(phase), d[1], d[2],
            o[1], o[2])

DinoTexts ==
    { DinoText("PLAYING", d, o) : d \in DinoLines, o \in ObstacleLines } \cup
    { DinoText(phase, d, o) :
        phase \in Phases \ {"PLAYING"}, d \in DinoLines, o \in FewObstacleLines }

\* the snapshots the parser makes of them
DinoSnapshots == { parseContent(c, Epoch, {WriterPid}) : c \in DinoTexts }

\* how old a snapshot is when decide() gets it
SnapshotAges == {0, 5}

\* what the caller lets pass between two calls
TickSteps == {100, 300}

MaxDecides == 2

NoDecideObs ==
    [calls |-> 0, state |-> None, decision |-> None, sinceJump |-> None,
     gap |-> None]

EngineInit ==
    /\ procs = {WriterPid}
    /\ file = None
    /\ host = [parseMs |-> 0]
    /\ parser = [lastModified |-> 0, cachedState |-> None]
    /\ keySender = KeySenderNew("linux")
    /\ dinoEngine = DinoEngineNew
    /\ player = AutoPlayerNew(Options("dino", 0, FALSE, 0), Epoch)
    /\ frame = NoFrame
    /\ pc = "idle"
    /\ obs = NoDecideObs

\* dinoEngine.decide(state)
EngineDecide ==
    /\ obs.calls < MaxDecides
    /\ \E s \in DinoSnapshots, age \in SnapshotAges :
          LET state == [s EXCEPT !.timestamp = Epoch - age]
              r == decide(dinoEngine, state, Epoch)
              jump == r.decision.action = "jump"
          IN  /\ dinoEngine' = r.engine
              /\ obs' = [calls |-> obs.calls + 1,
                         state |-> Some(state),
                         decision |-> Some(r.decision),
                         sinceJump |-> IF jump THEN Some(0) ELSE obs.sinceJump,
                         gap |-> IF jump THEN obs.sinceJump ELSE obs.gap]
    /\ UNCHANGED <<file, procs, host, parser, keySender, player, frame, pc>>

\* time passes between two calls; followed until the cooldown is surely over
EngineTick ==
    /\ IsSome(obs.sinceJump)
    /\ Val(obs.sinceJump) < dinoEngine.jumpCooldown
    /\ \E dt \in TickSteps :
          /\ dinoEngine' = Elapse(World, dt).dinoEngine
          /\ obs' = [obs EXCEPT !.sinceJump = Some(Val(@) + dt)]
    /\ UNCHANGED <<file, procs, host, parser, keySender, player, frame, pc>>

EngineNext == EngineDecide \/ EngineTick

EngineSpec == EngineInit /\ [][EngineNext]_vars

\* a step of Cycle that runs a cycle (the loop test passed, a parse was made)
CycleStep == pc = "loopTop" /\ loopContinues(player) /\ UNCHANGED <<file, procs>>

\* the controller's objects as they are when only the time of a parse has passed
AfterParse == Elapse(World, host.parseMs)

\* C1: when the initial forced parse returns null or a snapshot that is not live
\* (pid null included), start() is over at once: it has returned the statistics
\* with loops = 0 and keySends = 0, and neither setTargetPid nor send was called.
C1_InitialValidation ==
    obs.initial \in {"null", "noPid", "dead"} =>
        /\ pc = "done"
        /\ obs.returned = Some(player.stats)
        /\ player.stats.loops = 0
        /\ player.stats.keySends = 0
        /\ obs.setTargetPidCalls = 0
        /\ obs.sendCalls = 0
        /\ obs.cyclesCounted = 0
        /\ obs.lastRead = ""

C1_Witness == pc = "done" /\ obs.initial = "dead" /\ obs.diag # ""

\* C2: a cycle whose snapshot carries a pid that is no longer running ends the
\* run in that cycle: no decision, no key, loops not incremented, the statistics
\* returned; and no cycle follows (the run stays over).
C2_TargetLost ==
    /\ [][(CycleStep /\ obs'.lastRead = "dead") =>
             /\ pc' = "done"
             /\ obs'.decides = obs.decides
             /\ obs'.sendCalls = obs.sendCalls
             /\ obs'.injections = obs.injections
             /\ keySender' = AfterParse.keySender
             /\ player'.stats = player.stats
             /\ obs'.returned = Some(player.stats)]_vars
    /\ [](obs.lastRead = "dead" => pc = "done")

C2_Witness ==
    pc = "done" /\ obs.lastRead = "dead" /\ player.stats.loops > 0

C4_FailureCounter ==
    [][CycleStep =>
         /\ obs'.lastRead \in {"null", "noPid"} =>
               /\ frame'.consecutiveInvalidReads = frame.consecutiveInvalidReads + 1
               /\ IF frame'.consecutiveInvalidReads < maxInvalidReads
                  THEN pc' = "sleepInvalid"
                  ELSE /\ pc' = "done"
                       /\ frame'.consecutiveInvalidReads = maxInvalidReads
         /\ obs'.lastRead \in {"dead", "live"} =>
               frame'.consecutiveInvalidReads = 0
         /\ obs'.diag = "Cannot read state file - game may have exited" =>
               frame'.consecutiveInvalidReads = maxInvalidReads]_vars

\* a streak of failed reads was followed by a valid parse, and the loop goes on
C4_Witness ==
    /\ obs.invalidSeen
    /\ obs.lastRead = "live"
    /\ frame.consecutiveInvalidReads = 0
    /\ pc \in SuspendedPcs

\* C5: after stop() no parse is performed; the cycle in progress when stop() is
\* called runs to its end (its key is still sent, the cycle is still counted),
\* so at most one native key call begins after the stop request.
C5_CooperativeStop ==
    /\ [](~obs.parsedAfterStop /\ obs.injectionsAfterStop <= 1)
    /\ [][(obs.stopRequested /\ pc = "sendRateSleep" /\ pc' # pc) =>
             obs'.injections = obs.injections + 1]_vars
    /\ [][(obs.stopRequested /\ pc \in {"sendRateSleep", "sendNative"}
              /\ pc' \notin {"sendRateSleep", "sendNative"}) =>
             player'.stats.loops = player.stats.loops + 1]_vars

C5_Witness == obs.injectionsAfterStop = 1 /\ pc = "done"

\* C6: with every sleep and native call completing, a run in which a stop
\* condition holds (stop requested, maximum cycle count reached, failure
\* threshold reached, target observed gone) ends: start() returns.
StopCondition ==
    \/ ~player.running
    \/ maxLoopsReached(player.options, player.stats)
    \/ tooManyInvalidReads(frame.consecutiveInvalidReads)
    \/ obs.lastRead = "dead"

C6_StopConditionEndsRun ==
    (pc # "idle" /\ StopCondition) ~> (pc = "done")

C6_Witness == pc = "done" /\ obs.stopRequested

\* C7: when start() is over it has resolved with the statistics of the run:
\* loops and keySends are the cycles and keys counted; nothing is returned
\* before the end.
C7_ReturnsRunStats ==
    /\ pc = "done" =>
          /\ obs.returned = Some(player.stats)
          /\ Val(obs.returned).loops = obs.cyclesCounted
          /\ Val(obs.returned).keySends = obs.keysCounted
    /\ pc # "done" => obs.returned = None

C7_Witness ==
    pc = "done" /\ player.stats.loops = 2 /\ player.stats.keySends >= 1

\* C8 as stated: on every exit, failure of the initial validation included, the
\* final statistics summary has been printed exactly once.
C8_SummaryOnEveryExit == pc = "done" => obs.summaries = 1

\* C8 amended: on every exit from the poll loop (stop request, maximum cycle
\* count, failure threshold, target lost) the summary of the run's statistics
\* is printed exactly once before start() returns; when the initial validation
\* fails only the diagnostic is printed.
C8_SummaryAfterLoop ==
    /\ pc = "done" =>
          IF obs.initial = "live"
          THEN obs.summaries = 1 /\ obs.summary = Some(SummaryOf(player.stats))
          ELSE obs.summaries = 0 /\ obs.diag # ""
    /\ pc # "done" => obs.summaries = 0

C8_Witness == pc = "done" /\ obs.summaries = 1 /\ obs.stopRequested

\* C9: in a cycle the parse is over before the decision is computed and the
\* decision before the key call begins; no parse begins while a key call of an
\* earlier cycle is in progress.
EventOrder == <<"parse", "decide", "injectBegin", "injectEnd">>

C9_CycleOrder ==
    /\ \E n \in 0..Len(EventOrder) : obs.events = SubSeq(EventOrder, 1, n)
    /\ ~obs.overlap
    /\ obs.injecting => pc = "sendNative"

C9_Witness == obs.events = EventOrder /\ player.stats.loops = 2

\* C10: a cycle whose snapshot is null or has pid null changes nothing but the
\* consecutive-failure counter: no engine call, no key, same target pid, same
\* statistics (loops, keySends, decisions, score).
C10_InvalidReadSkipped ==
    [][(CycleStep /\ obs'.lastRead \in {"null", "noPid"}) =>
         /\ frame'.consecutiveInvalidReads = frame.consecutiveInvalidReads + 1
         /\ player'.stats = player.stats
         /\ keySender' = AfterParse.keySender
         /\ dinoEngine' = AfterParse.dinoEngine
         /\ obs'.decides = obs.decides
         /\ obs'.sendCalls = obs.sendCalls
         /\ obs'.injections = obs.injections
         /\ obs'.setTargetPidCalls = obs.setTargetPidCalls]_vars

C10_Witness ==
    /\ pc = "sleepInvalid"
    /\ obs.lastRead = "noPid"
    /\ player.stats.loops > 0
    /\ player.stats.keySends > 0

\* C11: a cycle calls KeySender.send at most once: not at all for a decision
\* wait or none (or no decision), exactly once for jump (space), start and
\* restart (enter) when dry-run is off; no other step calls send, and a cycle
\* begins at most one native key call.
KeyActions == {"jump", "start", "restart"}

C11_OneSendPerCycle ==
    /\ [](\A a \in Actions :
             keyOf(a) = IF a = "jump" THEN Some("space")
                        ELSE IF a \in {"start", "restart"} THEN Some("enter")
                        ELSE None)
    /\ [][(CycleStep /\ obs'.lastRead = "live") =>
             IF obs'.action \in KeyActions /\ ~player.options.dryRun
             THEN /\ obs'.sendCalls = obs.sendCalls + 1
                  /\ frame'.key = keyOf(obs'.action)
             ELSE /\ obs'.sendCalls = obs.sendCalls
                  /\ obs'.injections = obs.injections]_vars
    /\ [][(pc # "idle" /\ ~(CycleStep /\ obs'.lastRead = "live")) =>
             obs'.sendCalls = obs.sendCalls]_vars
    /\ [][pc # "idle" => obs'.injections \in {obs.injections, obs.injections + 1}]_vars
    /\ [](Len(SelectSeq(obs.events, LAMBDA e : e = "injectBegin")) <= 1)

\* a cycle that sent a key was followed by a cycle whose decision was wait
C11_Witness ==
    /\ obs.action = "wait"
    /\ obs.sendCalls = 1
    /\ player.stats.decisions["jump"] = 1
    /\ player.stats.loops = 2

\* C12: with dry-run on, every decision is still computed and tallied, and
\* KeySender.send is never called: no call, no native key call, lastSendTime
\* never stamped.
C12_DryRunNeverSends ==
    /\ [](player.options.dryRun =>
             /\ obs.sendCalls = 0
             /\ obs.injections = 0
             /\ keySender.lastSendTime = 0
             /\ pc \notin {"sendRateSleep", "sendNative"})
    /\ [][(CycleStep /\ player.options.dryRun /\ obs'.lastRead = "live") =>
             /\ obs'.decides = obs.decides + 1
             /\ obs'.action # "" =>
                   player'.stats.decisions[obs'.action] =
                       player.stats.decisions[obs'.action] + 1]_vars

C12_Witness ==
    /\ player.options.dryRun
    /\ pc = "done"
    /\ player.stats.decisions["start"] = 1
    /\ player.stats.decisions["jump"] = 1

\* C13 as stated: every native key call that failed (game window not found, or
\* the key command failing) made send() resolve to false, so the failed calls
\* are exactly the calls reported as failures, and none of them is counted.
C13_FailureReportedFalse ==
    /\ obs.failures = obs.undelivered
    /\ (~player.options.dryRun /\ ~obs.injecting) =>
           obs.keysCounted + obs.undelivered = obs.injections

\* C13, the part about the loop: a send() that resolves to false is not counted
\* in keySends, and the cycle goes on as after a decision without key: it is
\* counted, and the run goes to its pacing sleep or to the next loop test, or
\* ends because the maximum cycle count is reached.
C13_ReportedFailureNotFatal ==
    [][obs'.failures = obs.failures + 1 =>
         /\ player'.stats.keySends = player.stats.keySends
         /\ player'.stats.loops = player.stats.loops + 1
         /\ \/ pc' \in {"pacing", "loopTop"}
            \/ pc' = "done" /\ maxLoopsReached(player.options, player'.stats)]_vars

\* a reported failure in the first cycle, and a second cycle after it
C13_Witness ==
    /\ obs.failures >= 1
    /\ player.stats.loops = 2
    /\ player.stats.keySends = 0
    /\ player.stats.decisions["start"] = 2

\* C14: send() calls awaited one after another on one KeySender: a call that
\* arrives before minInterval has passed since the previous dispatch sleeps
\* exactly the remainder and then dispatches; two consecutive dispatches are at
\* least minInterval apart; N dispatches take at least (N-1) * minInterval from
\* the caller's start.  (The time that passes in a step is what frame.loopStart
\* moves into the past.)
C14_RateLimit ==
    /\ [](pc = "sendRateSleep" =>
             /\ frame.sleepMs > 0
             /\ frame.sleepMs =
                    keySender.minInterval - (Epoch - keySender.lastSendTime))
    /\ [][(obs'.injections = obs.injections + 1 /\ obs.injections >= 1) =>
             (Epoch - keySender.lastSendTime)
                 + (frame.loopStart - frame'.loopStart) >= keySender.minInterval]_vars
    /\ [](obs.injections >= 1 =>
             Epoch - frame.loopStart >= (obs.injections - 1) * keySender.minInterval)

\* MaxSends calls with no delay at all, done in exactly (MaxSends-1) * minInterval
C14_Witness ==
    /\ obs.injections = MaxSends
    /\ pc = "idle"
    /\ Epoch - frame.loopStart = (MaxSends - 1) * keySender.minInterval

\* the work time of the cycle that has just suspended or ended, and the sleep
\* that paces it to the poll interval
WorkDuration == Epoch - frame'.loopStart
PacedSleep == Max(0, player.options.pollInterval - WorkDuration)

\* C15 as stated: after the work of every cycle that is followed by another,
\* valid or not, the loop sleeps max(0, pollInterval - workDuration).
C15_EveryCyclePaced ==
    [][(pc = "loopTop" /\ pc' \in {"sleepInvalid", "pacing"}) =>
          frame'.sleepMs = PacedSleep]_vars

\* C15, the cycles with a valid parse: the loop sleeps
\* max(0, pollInterval - workDuration) when that is positive, and goes straight
\* to the next loop test when it is zero.
C15_ValidCyclePaced ==
    [][(obs'.cyclesCounted = obs.cyclesCounted + 1 /\ pc' # "done") =>
          IF PacedSleep > 0
          THEN pc' = "pacing" /\ frame'.sleepMs = PacedSleep
          ELSE pc' = "loopTop"]_vars

\* a pacing sleep shortened by the work time of its cycle
C15_Witness ==
    /\ pc = "pacing"
    /\ frame.sleepMs > 0
    /\ frame.sleepMs < player.options.pollInterval

\* C16: with maxLoops = N > 0, loops never exceeds N and the run ends in the
\* cycle that makes loops equal N; with maxLoops = 0 the run never ends for
\* its cycle count.
C16_MaxLoops ==
    /\ player.options.maxLoops > 0 =>
          /\ player.stats.loops <= player.options.maxLoops
          /\ player.stats.loops = player.options.maxLoops =>
                pc = "done" /\ obs.diag = "Max loops reached"
    /\ player.options.maxLoops = 0 => obs.diag # "Max loops reached"

\* a run limited to fewer cycles than the model allows has ended at its limit
C16_Witness ==
    /\ pc = "done"
    /\ player.options.maxLoops = 1
    /\ player.options.maxLoops < MaxCycles
    /\ player.stats.loops = 1

\* C17: a native key call begins only after setTargetPid was called with the
\* pid of a snapshot whose process was found running, and when it begins the
\* KeySender's targetPid is the pid of the snapshot of the cycle that sends.
C17_TargetBound ==
    /\ [][obs'.injections = obs.injections + 1 =>
             /\ IsSome(frame'.state)
             /\ Val(frame'.state).pidValid
             /\ IsSome(keySender'.targetPid)
             /\ keySender'.targetPid = Val(frame'.state).pid]_vars
    /\ [](obs.injections > 0 =>
             obs.setTargetPidCalls >= 2 /\ obs.initial = "live")

\* a key is being sent to the session that writes the file
C17_Witness ==
    /\ pc = "sendNative"
    /\ keySender.targetPid = Some(WriterPid)
    /\ EarlierPid \in procs

\* a call of parse() by the caller of the parser's own specification
ParseStep == obs'.calls = obs.calls + 1

\* the file is there and its modification time is not past the last read one
Unmodified == IsSome(file) /\ Val(file).mtimeMs <= parser.lastModified

\* C18: a non-forced parse with a cached snapshot and an unmodified file returns
\* the cached object itself and reads nothing (so does the next one); a
\* non-forced parse reads only when there is no cached snapshot or the
\* modification time has advanced; parse(true) reads whenever the file can be
\* read, whatever its modification time.
C18_CachedUnlessModified ==
    [][ParseStep =>
         /\ (~obs'.forced /\ IsSome(parser.cachedState) /\ obs'.readable
                /\ Unmodified) =>
               (obs'.result = parser.cachedState /\ parser' = parser)
         /\ (~obs'.forced /\ parser' # parser) =>
               /\ obs'.readable
               /\ ~IsSome(parser.cachedState) \/ ~Unmodified
         /\ (obs'.forced /\ obs'.readable) =>
               /\ obs'.result =
                      Some(parseContent(Val(file).content, Epoch, procs))
               /\ parser' = [lastModified |-> Val(file).mtimeMs,
                             cachedState |-> obs'.result]]_vars

\* two non-forced parses in a row returned the cached snapshot, which is older
\* than the calls and still says the process runs although it has exited
C18_Witness ==
    /\ obs.hits = 2
    /\ obs.readable
    /\ Val(obs.result).timestamp < Epoch
    /\ Val(obs.result).pidValid
    /\ procs = {}

\* C19: a text whose PROCESS ID line is absent, unparseable or 0, when read,
\* gives the minimal snapshot: pid null, pidValid false, empty screen and
\* status, no game sub-record - whatever the rest of the text and whatever
\* processes run.
NoPid(content) == content.pidLine \in {None, Some(0)}

C19_NoPidMinimal ==
    [][(ParseStep /\ obs'.readable /\ NoPid(Val(file).content)
           /\ (obs'.forced \/ ~IsSome(parser.cachedState) \/ ~Unmodified)) =>
          obs'.result = Some(BaseState(Epoch, None, FALSE, ScreenEmpty,
                                       EmptyStatus, Val(file).content))]_vars

\* a dino screen text without process id, read while the game's process runs
C19_Witness ==
    /\ obs.calls > 0
    /\ IsSome(obs.result)
    /\ Val(obs.result).pid = None
    /\ ~Val(obs.result).pidValid
    /\ Val(obs.result).dino = None
    /\ Val(obs.result).raw.screenLine = ScreenDinoRun
    /\ WriterPid \in procs

\* C20 as stated: a parse call made while the file cannot be read returns null,
\* forced or not, cached snapshot or not.
C20_UnreadableIsNull ==
    [][(ParseStep /\ ~obs'.readable) => obs'.result = None]_vars

\* C20, the calls that do return null: forced calls, and non-forced calls made
\* before any parse succeeded; the parser keeps what it had.
C20_UnreadableForcedIsNull ==
    [][(ParseStep /\ ~obs'.readable
           /\ (obs'.forced \/ ~IsSome(parser.cachedState))) =>
          (obs'.result = None /\ parser' = parser)]_vars

\* parse(true) returned null although an earlier parse had succeeded
C20_Witness ==
    /\ obs.calls >= 2
    /\ obs.forced
    /\ ~obs.readable
    /\ obs.result = None
    /\ IsSome(parser.cachedState)

----------------------------------------------------------------------------
(* Claims about DinoEngine.decide *)

\* a call of decide() by the caller of the engine's own specification
DecideStep == obs'.calls = obs.calls + 1

\* the snapshot has a dino record that says the dino is in the air
Airborne(state) == IsSome(state.dino) /\ Val(state.dino).isJumping

\* the time since the latest jump decision is known and below the cooldown
WithinCooldown(e, sinceJump) ==
    IsSome(sinceJump) /\ Val(sinceJump) < e.jumpCooldown

\* C21: phase START gives start with confidence 1.0, GAME_OVER gives restart,
\* COUNTDOWN gives wait, whatever the dino and obstacle fields and the cooldown
\* state are, and the cooldown timestamp stays as it was.
C21_PhaseOverrides ==
    [][DecideStep =>
         LET state == Val(obs'.state)
             d == Val(obs'.decision)
         IN  /\ state.dinoGameState = Some("START") =>
                   (d.action = "start" /\ d.confidence = 100
                      /\ dinoEngine' = dinoEngine)
             /\ state.dinoGameState = Some("GAME_OVER") =>
                   (d.action = "restart" /\ dinoEngine' = dinoEngine)
             /\ state.dinoGameState = Some("COUNTDOWN") =>
                   (d.action = "wait" /\ dinoEngine' = dinoEngine)]_vars

\* start was decided for an airborne dino with a cactus in the band and the
\* marker set, 100 ms after a jump
C21_Witness ==
    /\ obs.calls = 2
    /\ Val(obs.decision).action = "start"
    /\ Airborne(Val(obs.state))
    /\ IsSome(Val(obs.state).obstacle)
    /\ Val(Val(obs.state).obstacle).distance = 4
    /\ Val(Val(obs.state).obstacle).shouldJump
    /\ obs.sinceJump = Some(100)

\* C22: a decide call made less than jumpCooldown after a jump decision of the
\* same engine does not return jump, a hazard in the band or not; so any
\* two consecutive jump decisions are at least jumpCooldown apart.
C22_JumpCooldown ==
    [][DecideStep =>
         /\ WithinCooldown(dinoEngine, obs.sinceJump) =>
               Val(obs'.decision).action # "jump"
         /\ (Val(obs'.decision).action = "jump" /\ IsSome(obs'.gap)) =>
               Val(obs'.gap) >= dinoEngine.jumpCooldown]_vars

\* 300 ms after a jump, a cactus at distance 4 on the ground: wait
C22_Witness ==
    /\ obs.calls = 2
    /\ obs.sinceJump = Some(300)
    /\ Val(obs.decision).action = "wait"
    /\ ~Airborne(Val(obs.state))
    /\ Val(obs.state).dinoGameState = Some("PLAYING")
    /\ Val(obs.state).obstacle =
           Some([distance |-> 4, type |-> "CACTUS", y |-> 0, shouldJump |-> TRUE])

\* C23 as stated: for a snapshot whose dino is airborne, decide returns wait.
C23_AirborneWaits ==
    [][(DecideStep /\ Airborne(Val(obs'.state))) =>
          Val(obs'.decision).action = "wait"]_vars

\* C23, what holds: for an airborne dino decide never returns jump and leaves
\* the cooldown timestamp alone; in the playing phase with an obstacle record
\* it returns wait, whatever the distance, the type, the marker and the
\* cooldown; in the other phases the phase decides.
C23_AirborneNeverJumps ==
    [][(DecideStep /\ Airborne(Val(obs'.state))) =>
          LET state == Val(obs'.state)
              d == Val(obs'.decision)
          IN  /\ d.action # "jump"
              /\ dinoEngine' = dinoEngine
              /\ (state.dinoGameState = Some("PLAYING")
                     /\ IsSome(state.obstacle)) =>
                    (d.action = "wait" /\ d.confidence = 90)
              /\ state.dinoGameState = Some("PLAYING") =>
                    d.action \in {"wait", "none"}]_vars

\* on the ground with upward velocity, a cactus at distance 4 with the marker,
\* no jump made before: wait
C23_Witness ==
    /\ obs.calls > 0
    /\ Val(obs.decision).action = "wait"
    /\ Val(obs.decision).confidence = 90
    /\ Val(obs.state).dino = Some([y |-> 0, velocity |-> 5, isJumping |-> TRUE])
    /\ Val(obs.state).obstacle =
           Some([distance |-> 4, type |-> "CACTUS", y |-> 0, shouldJump |-> TRUE])
    /\ obs.sinceJump = None

\* the snapshot's next obstacle is a bat above the ground
FlyingBat(state) ==
    /\ IsSome(state.obstacle)
    /\ Val(state.obstacle).type = "BAT"
    /\ Val(state.obstacle).y > 0

\* C24 as stated: for a bat above the ground decide never returns jump, at any
\* distance, with the [JUMP NOW!] marker or without.
C24_BatNeverJumped ==
    [][(DecideStep /\ FlyingBat(Val(obs'.state))) =>
          Val(obs'.decision).action # "jump"]_vars

\* C24, what holds: for a bat above the ground, in the playing phase with a
\* dino record, decide returns wait when the bat is further than
\* batSafeDistance and when the snapshot has no marker; a jump is returned
\* only for a bat within batSafeDistance with the marker, the dino on the
\* ground and no cooldown active.
C24_BatBeyondSafeDistanceWaits ==
    [][(DecideStep /\ FlyingBat(Val(obs'.state))
           /\ Val(obs'.state).dinoGameState = Some("PLAYING")
           /\ IsSome(Val(obs'.state).dino)) =>
          LET obstacle == Val(Val(obs'.state).obstacle)
              d == Val(obs'.decision)
          IN  /\ (obstacle.distance > dinoEngine.batSafeDistance
                    \/ ~obstacle.shouldJump) =>
                    (d.action = "wait" /\ dinoEngine' = dinoEngine)
              /\ d.action = "jump" =>
                    /\ obstacle.distance <= dinoEngine.batSafeDistance
                    /\ obstacle.shouldJump
                    /\ ~Airborne(Val(obs'.state))
                    /\ ~WithinCooldown(dinoEngine, obs.sinceJump)]_vars

\* a bat at height 3 and distance 4 with the marker, the dino on the ground, no
\* jump made before: wait, stay grounded
C24_Witness ==
    /\ obs.calls > 0
    /\ Val(obs.decision).action = "wait"
    /\ Val(obs.decision).reason = <<"BAT incoming, stay grounded: dist=", 4>>
    /\ Val(obs.state).obstacle =
           Some([distance |-> 4, type |-> "BAT", y |-> 3, shouldJump |-> TRUE])
    /\ ~Airborne(Val(obs.state))
    /\ obs.sinceJump = None

\* the snapshot has a dino record that says the dino is on the ground
Grounded(state) == IsSome(state.dino) /\ ~Val(state.dino).isJumping

\* the snapshot's next obstacle is a hazard on the ground
GroundHazard(state) ==
    /\ IsSome(state.obstacle)
    /\ Val(state.obstacle).type # "NONE"
    /\ Val(state.obstacle).y = 0

\* the playing phase, the dino on the ground, no cooldown active
ReadyToAct(state) ==
    /\ state.dinoGameState = Some("PLAYING")
    /\ Grounded(state)
    /\ ~WithinCooldown(dinoEngine, obs.sinceJump)

\* C25: playing phase, a hazard on the ground at a distance within
\* [jumpDistanceMin, jumpDistanceMax], bounds included, the dino on the ground
\* and no cooldown active: decide returns jump with confidence at least 0.9 and
\* sets the cooldown timestamp to the time of the call.
C25_InBandJump ==
    [][(DecideStep /\ ReadyToAct(Val(obs'.state))
           /\ GroundHazard(Val(obs'.state))
           /\ Val(Val(obs'.state).obstacle).distance >= dinoEngine.jumpDistanceMin
           /\ Val(Val(obs'.state).obstacle).distance <= dinoEngine.jumpDistanceMax) =>
          /\ Val(obs'.decision).action = "jump"
          /\ Val(obs'.decision).confidence >= 90
          /\ dinoEngine' = [dinoEngine EXCEPT !.lastJumpTime = Epoch]]_vars

\* a second jump, exactly jumpCooldown after the first, for a cactus at the
\* upper bound of the band
C25_Witness ==
    /\ obs.calls = 2
    /\ Val(obs.decision).action = "jump"
    /\ Val(obs.decision).confidence = 95
    /\ Val(Val(obs.state).obstacle).distance = DinoEngineNew.jumpDistanceMax
    /\ Val(Val(obs.state).obstacle).y = 0
    /\ obs.gap = Some(DinoEngineNew.jumpCooldown)
    /\ dinoEngine.lastJumpTime = Epoch

\* the snapshot's obstacle record says that nothing is within the band: the
\* distance is beyond jumpDistanceMax, or there is no obstacle ("None")
NothingInBand(state) ==
    /\ IsSome(state.obstacle)
    /\ \/ Val(state.obstacle).distance > dinoEngine.jumpDistanceMax
       \/ Val(state.obstacle).type = "NONE"

\* C26 as stated: playing phase and nothing within the band: decide returns wait
\* with confidence at most 0.8 and leaves the cooldown timestamp unchanged.
C26_OutOfBandWaitsLowConfidence ==
    [][(DecideStep /\ Val(obs'.state).dinoGameState = Some("PLAYING")
           /\ NothingInBand(Val(obs'.state))) =>
          /\ Val(obs'.decision).action = "wait"
          /\ Val(obs'.decision).confidence <= 80
          /\ dinoEngine' = dinoEngine]_vars

\* C26, what holds: playing phase, a dino record, nothing within the band:
\* decide returns wait and leaves the cooldown timestamp unchanged, marker or
\* not, cooldown or not; the confidence is 0.8 for a dino on the ground and 0.9
\* for an airborne one.
C26_OutOfBandWaits ==
    [][(DecideStep /\ Val(obs'.state).dinoGameState = Some("PLAYING")
           /\ IsSome(Val(obs'.state).dino)
           /\ NothingInBand(Val(obs'.state))) =>
          /\ Val(obs'.decision).action = "wait"
          /\ Val(obs'.decision).confidence =
                 IF Airborne(Val(obs'.state)) THEN 90 ELSE 80
          /\ dinoEngine' = dinoEngine]_vars

\* a cactus at distance 12 with the marker, the dino on the ground, no jump made
\* before: wait at confidence 0.8
C26_Witness ==
    /\ obs.calls > 0
    /\ Val(obs.decision).action = "wait"
    /\ Val(obs.decision).confidence = 80
    /\ Val(obs.state).obstacle =
           Some([distance |-> 12, type |-> "CACTUS", y |-> 0, shouldJump |-> TRUE])
    /\ Grounded(Val(obs.state))
    /\ obs.sinceJump = None
    /\ dinoEngine = DinoEngineNew

\* line 129: the confidence (in hundredths) of the jump for a hazard in the band
InBandConfidence == 95

\* the snapshot's hazard is on the ground and closer than jumpDistanceMin
TooClose(state) ==
    /\ GroundHazard(state)
    /\ Val(state.obstacle).distance < dinoEngine.jumpDistanceMin

\* C27 as stated: playing phase, a ground hazard closer than the band, the dino
\* on the ground, no cooldown active: decide returns jump with a confidence
\* strictly below that of an in-band jump, and records the jump time.
C27_EmergencyReducedConfidence ==
    [][(DecideStep /\ ReadyToAct(Val(obs'.state)) /\ TooClose(Val(obs'.state))) =>
          /\ Val(obs'.decision).action = "jump"
          /\ Val(obs'.decision).confidence < InBandConfidence
          /\ dinoEngine'.lastJumpTime = Epoch]_vars

\* C27, what holds: in that case decide returns jump and records the jump time;
\* the confidence is 0.6 unless the snapshot carries the [JUMP NOW!] marker
\* with the dino at height 0, and then it is 1.0.
C27_EmergencyJump ==
    [][(DecideStep /\ ReadyToAct(Val(obs'.state)) /\ TooClose(Val(obs'.state))) =>
          LET obstacle == Val(Val(obs'.state).obstacle)
              dino == Val(Val(obs'.state).dino)
          IN  /\ Val(obs'.decision).action = "jump"
              /\ Val(obs'.decision).confidence =
                     IF obstacle.shouldJump /\ dino.y = 0 THEN 100 ELSE 60
              /\ dinoEngine' = [dinoEngine EXCEPT !.lastJumpTime = Epoch]]_vars

\* a cactus at distance 1 without the marker, the dino on the ground, 400 ms
\* after a jump: the emergency jump at confidence 0.6
C27_Witness ==
    /\ obs.calls = 2
    /\ Val(obs.decision).action = "jump"
    /\ Val(obs.decision).confidence = 60
    /\ Val(obs.decision).reason = <<"EMERGENCY: obstacle at dist=", 1>>
    /\ Grounded(Val(obs.state))
    /\ obs.gap = Some(DinoEngineNew.jumpCooldown)
    /\ dinoEngine.lastJumpTime = Epoch

\* timestamps a snapshot may carry: taken long ago, a parse time ago, just now
SnapshotTimes == {0, Epoch} \cup { Epoch - age : age \in SnapshotAges }

\* C28: a snapshot that differs from the one decided on only in its timestamp,
\* given to the same engine in the same state at the same clock reading, gets
\* the same action and the same reason (and leaves the engine the same).
C28_TimestampIrrelevant ==
    [][DecideStep =>
         \A ts \in SnapshotTimes :
            LET other == [Val(obs'.state) EXCEPT !.timestamp = ts]
                r == decide(dinoEngine, other, Epoch)
            IN  /\ r.decision.action = Val(obs'.decision).action
                /\ r.decision.reason = Val(obs'.decision).reason
                /\ r.engine = dinoEngine']_vars

\* a jump decided exactly jumpCooldown after the previous one, on a snapshot
\* taken 5 ms before the call
C28_Witness ==
    /\ obs.calls = 2
    /\ Val(obs.decision).action = "jump"
    /\ Val(obs.state).timestamp = Epoch - 5
    /\ obs.gap = Some(DinoEngineNew.jumpCooldown)

----------------------------------------------------------------------------
(* Claims about the engine layer and the command line *)

\* the game type a cycle resolves for the snapshot it has read
ResolvedGame(options, state) ==
    IF options.game = "auto" THEN detectGame(state) ELSE options.game

\* a step of Cycle that got as far as asking the engine layer for a decision
DecisionStep == CycleStep /\ obs'.decides = obs.decides + 1

\* C29: a cycle on a live snapshot whose game type has no engine (a screen that
\* matches no game, or snake / tictactoe) gets no decision: no decision is
\* counted, no key is sent or counted, the engine and the rate limit are left
\* alone, the cycle is counted in loops, and the run goes on to its pacing
\* sleep or the next loop test, or ends only because maxLoops is reached.  A
\* cycle whose game type is dino does get a decision.
C29_UnknownGameNoOp ==
    [][DecisionStep =>
         /\ obs'.action = "" <=>
               ResolvedGame(player.options, Val(frame'.state)) # "dino"
         /\ obs'.action = "" =>
               /\ player'.stats.decisions = player.stats.decisions
               /\ player'.stats.keySends = player.stats.keySends
               /\ obs'.sendCalls = obs.sendCalls
               /\ obs'.injections = obs.injections
               /\ dinoEngine' = AfterParse.dinoEngine
               /\ keySender'.lastSendTime = AfterParse.keySender.lastSendTime
               /\ player'.stats.loops = player.stats.loops + 1
               /\ player'.running
               /\ \/ pc' \in {"pacing", "loopTop"}
                  \/ pc' = "done" /\ maxLoopsReached(player.options, player'.stats)]_vars

\* --game snake on a Dino Run screen: a first cycle without decision was
\* counted, and so was a second
C29_Witness ==
    /\ player.options.game = "snake"
    /\ player.stats.loops = 2
    /\ obs.decides = 2
    /\ obs.action = ""
    /\ \A a \in Actions : player.stats.decisions[a] = 0
    /\ player.stats.keySends = 0
    /\ IsSome(frame.state)
    /\ Val(frame.state).screen = ScreenDinoRun

\* a text that is a decimal number without sign
IsNumber(s) == Len(s) > 0 /\ \A i \in 1..Len(s) : DigitValue(s[i]) >= 0

\* the command line has no invalid flag value: a known game name, a positive
\* number as poll interval, a number as maximum cycle count
ValidArgs(argv) ==
    /\ IsSome(argv.game) =>
          \E g \in GameTypes : GameNames[g] = ToLowerCase(Val(argv.game))
    /\ IsSome(argv.poll) =>
          (IsNumber(Val(argv.poll)) /\ Val(parseInt(Val(argv.poll))) > 0)
    /\ IsSome(argv.maxLoops) => IsNumber(Val(argv.maxLoops))

\* main() has got past parseArgs and the help exit
PastStartup == pc \notin {"cli", "exited"}

\* C30 as stated: with an invalid flag value the program stops before the
\* control loop starts, so start() is only ever called on a valid command line.
C30_InvalidArgsFailFast == PastStartup => ValidArgs(host.argv)

\* C30, what holds: every command line without --help gets as far as start(),
\* and the values of a valid command line are the options of the run.
C30_ValidArgsTakenAsGiven ==
    /\ pc = "exited" => (host.argv.help /\ obs.runs = 0)
    /\ PastStartup => (~host.argv.help /\ obs.runs = 1)
    /\ (PastStartup /\ ValidArgs(host.argv)) =>
          /\ player.options.game =
                 IF IsSome(host.argv.game)
                 THEN CHOOSE g \in GameTypes :
                         GameNames[g] = ToLowerCase(Val(host.argv.game))
                 ELSE "auto"
          /\ player.options.pollInterval =
                 IF IsSome(host.argv.poll) THEN Val(parseInt(Val(host.argv.poll)))
                 ELSE 30
          /\ player.options.maxLoops =
                 IF IsSome(host.argv.maxLoops)
                 THEN Val(parseInt(Val(host.argv.maxLoops))) ELSE 0
          /\ player.options.dryRun = host.argv.dryRun

\* "--game dino --poll 10 --max-loops 2" ran its two cycles with those options
C30_Witness ==
    /\ host.argv = UsualArgV
    /\ pc = "done"
    /\ player.stats.loops = 2
    /\ player.options.game = "dino"
    /\ player.options.pollInterval = 10
    /\ player.options.maxLoops = 2

----------------------------------------------------------------------------
(* start() called again on the same AutoPlayer while a run is suspended *)

\* start() (lines 74-77) begins with "this.running = true; this.stats =
\* this.initStats()" and tests nothing before: a callback that runs while a
\* first call is suspended at an await can call it again on the same instance.
\* Both calls then run their loops on the same fields (running, stats, parser,
\* keySender, engine), each with its own locals.  frame and pc are the locals
\* and the position of the call that runs next; host.other holds those of the
\* other call ("idle": not called yet).  The time a call spends waiting for its
\* turn is not added to its own loopStart.

ReentryDeployments ==
    { [platform |-> "linux", options |-> Options("dino", 10, FALSE, 2)],
      [platform |-> "macos", options |-> Options("auto", 10, TRUE, 0)] }

\* the game is in a run of Dino Run, waiting for its start or playing
ReentryContents ==
    { Content(Some(WriterPid), ScreenDinoRun, Some(0), Some("START"), Some(0), Some(0),
              None, {"Next Obstacle: None"}),
      Content(Some(WriterPid), ScreenDinoRun, Some(12), Some("PLAYING"), Some(0), Some(0),
              Some(Obst(4, "CACTUS", 0)), {}) }

ReentryInit ==
    /\ procs = {WriterPid}
    /\ file \in { Some([mtimeMs |-> 1, content |-> c]) : c \in ReentryContents }
    /\ host = [parseMs |-> 0, other |-> [frame |-> NoFrame, pc |-> "idle"]]
    /\ parser = [lastModified |-> 0, cachedState |-> None]
    /\ \E dep \in ReentryDeployments :
          /\ keySender = KeySenderNew(dep.platform)
          /\ player = AutoPlayerNew(dep.options, Epoch)
    /\ dinoEngine = DinoEngineNew
    /\ frame = NoFrame
    /\ pc = "idle"
    /\ obs = NewRunObs(0)

\* the event loop turns to the other call: the one running is suspended at an
\* await or has returned, the other one is suspended or is about to be made
Resume ==
    /\ pc \in SuspendedPcs \cup {"done"}
    /\ host.other.pc \in SuspendedPcs \cup {"idle"}
    /\ frame' = host.other.frame
    /\ pc' = host.other.pc
    /\ host' = [host EXCEPT !.other = [frame |-> frame, pc |-> pc]]
    /\ UNCHANGED <<file, procs, parser, keySender, dinoEngine, player, obs>>

\* the loop test and one cycle of the call that runs, the file readable
ReentryCycle ==
    /\ pc = "loopTop"
    /\ loopContinues(player) => player.stats.loops < MaxCycles
    /\ \E windowFound \in BOOLEAN :
          Apply(loopCycle(World, EnvIn(file, procs, 0, 0, windowFound, TRUE)))
    /\ UNCHANGED <<file, procs, host>>

ReentryNext ==
    \/ Start
    \/ ReentryCycle
    \/ WakePacing
    \/ WakeRateSleep
    \/ NativeDone
    \/ Stop
    \/ GameExits
    \/ Resume

ReentrySpec == ReentryInit /\ [][ReentryNext]_vars

\* a call of start() is in its poll loop
InLoop(p) == p \in SuspendedPcs \cup {"loopTop"}

\* the statistics record after a step holds at least the counts it held before
StatsKept ==
    /\ player'.stats.loops >= player.stats.loops
    /\ player'.stats.keySends >= player.stats.keySends
    /\ \A a \in Actions : player'.stats.decisions[a] >= player.stats.decisions[a]

\* C31 as stated: while a call of start() is in its poll loop and has not
\* returned, no step lowers loops or keySends or replaces the statistics
\* record, whatever stop() calls and further start() calls on the same
\* AutoPlayer are interleaved with it.
C31_NeverResetMidRun ==
    [][(\/ InLoop(pc) /\ InLoop(pc')
        \/ InLoop(host.other.pc) /\ InLoop(host'.other.pc)) => StatsKept]_vars

\* C31, what the code does: every step that is not a call of start() (a cycle,
\* a wake-up, the end of a key call, stop()) keeps the counts, and stop()
\* changes nothing of the record; a call of start() puts a fresh record in
\* place, whether or not an earlier call is still in its loop.
C31_ResetByEveryStart ==
    /\ [][obs'.runs = obs.runs => StatsKept]_vars
    /\ [][obs'.stopRequested /\ ~obs.stopRequested =>
             player'.stats = player.stats]_vars
    /\ [][obs'.runs # obs.runs => player'.stats = initStats(Epoch)]_vars

\* a first call has counted a cycle and is suspended, stop() has been called,
\* and the second call has replaced the record and is in its own loop
C31_Witness ==
    /\ obs.runs = 2
    /\ InLoop(pc)
    /\ InLoop(host.other.pc)
    /\ player.stats.loops = 0
    /\ player.running

----------------------------------------------------------------------------
(* DinoEngine tuned by a caller of its own *)

\* A caller holds a default DinoEngine, calls tune(p), decide(state) and
\* reset() on it in any order and lets time pass.  Next to each decide the
\* caller asks an engine made by new DinoEngine(p), put in the same cooldown
\* state, for its decision on the same snapshot.

\* a number or absent, for each of the four parameters
TuneParameters ==
    [jumpDistanceMin : {None, Some(0), Some(3)},
     jumpDistanceMax : {None, Some(0), Some(5)},
     batSafeDistance : {None, Some(0), Some(2)},
     jumpCooldown : {None, Some(0), Some(200)}]

TuneTexts ==
    { DinoText("PLAYING", d, o) :
        d \in {<<Some(0), Some(0)>>, <<Some(2), Some(-5)>>},
        o \in { <<None, {"Next Obstacle: None"}>>,
                <<Some(Obst(1, "CACTUS", 0)), {}>>,
                <<Some(Obst(4, "CACTUS", 0)), {}>>,
                <<Some(Obst(6, "CACTUS", 0)), {}>>,
                <<Some(Obst(4, "BAT", 3)), {}>> } } \cup
    { DinoText(phase, <<Some(0), Some(0)>>, <<None, {"Next Obstacle: None"}>>) :
        phase \in {"START", "GAME_OVER"} }

TuneSnapshots == { parseContent(c, Epoch, {WriterPid}) : c \in TuneTexts }

\* an engine made with the options, in the cooldown state of e
Constructed(options, e) ==
    [DinoEngineWith(options) EXCEPT !.lastJumpTime = e.lastJumpTime]

TuneInit ==
    /\ procs = {WriterPid}
    /\ file = None
    /\ host = [parseMs |-> 0]
    /\ parser = [lastModified |-> 0, cachedState |-> None]
    /\ keySender = KeySenderNew("linux")
    /\ dinoEngine = DinoEngineNew
    /\ player = AutoPlayerNew(Options("dino", 0, FALSE, 0), Epoch)
    /\ frame = NoFrame
    /\ pc = "idle"
    /\ \E p \in TuneParameters :
          obs = [params |-> p, tuned |-> FALSE, calls |-> 0, op |-> "new",
                 decision |-> None, constructed |-> None]

\* dinoEngine.tune(p)
TuneCall ==
    /\ ~obs.tuned
    /\ dinoEngine' = tune(dinoEngine, obs.params)
    /\ obs' = [obs EXCEPT !.tuned = TRUE, !.op = "tune"]
    /\ UNCHANGED <<file, procs, host, parser, keySender, player, frame, pc>>

\* dinoEngine.decide(state), and the same call on the constructed engine
TuneDecide ==
    /\ obs.calls < MaxDecides
    /\ \E state \in TuneSnapshots :
          LET r == decide(dinoEngine, state, Epoch)
              c == decide(Constructed(obs.params, dinoEngine), state, Epoch)
          IN  /\ dinoEngine' = r.engine
              /\ obs' = [obs EXCEPT !.calls = @ + 1, !.op = "decide",
                                    !.decision = Some(r.decision),
                                    !.constructed = Some(c.decision)]
    /\ UNCHANGED <<file, procs, host, parser, keySender, player, frame, pc>>

\* dinoEngine.reset()
TuneReset ==
    /\ dinoEngine.lastJumpTime # 0
    /\ dinoEngine' = reset(dinoEngine)
    /\ obs' = [obs EXCEPT !.op = "reset"]
    /\ UNCHANGED <<file, procs, host, parser, keySender, player, frame, pc>>

\* time passes between two calls
TuneTick ==
    /\ dinoEngine.lastJumpTime # 0
    /\ \E dt \in TickSteps :
          /\ dinoEngine' = Elapse(World, dt).dinoEngine
          /\ obs' = [obs EXCEPT !.op = "tick"]
    /\ UNCHANGED <<file, procs, host, parser, keySender, player, frame, pc>>

TuneNext == TuneCall \/ TuneDecide \/ TuneReset \/ TuneTick

TuneSpec == TuneInit /\ [][TuneNext]_vars

\* a decide call on the tuned engine
TunedDecide == obs.tuned /\ obs'.calls = obs.calls + 1

\* the four parameters are given and none of them is 0
AllPositive(p) ==
    /\ IsSome(p.jumpDistanceMin) /\ Val(p.jumpDistanceMin) > 0
    /\ IsSome(p.jumpDistanceMax) /\ Val(p.jumpDistanceMax) > 0
    /\ IsSome(p.batSafeDistance) /\ Val(p.batSafeDistance) > 0
    /\ IsSome(p.jumpCooldown) /\ Val(p.jumpCooldown) > 0

\* the four parameters are given, each 0 or more
AllGiven(p) ==
    /\ IsSome(p.jumpDistanceMin)
    /\ IsSome(p.jumpDistanceMax)
    /\ IsSome(p.batSafeDistance)
    /\ IsSome(p.jumpCooldown)

\* C32 as stated: for every parameter set p of four non-negative numbers, 0
\* included, a default engine on which tune(p) was called and an engine
\* constructed with options p return the same decision for every snapshot in
\* every cooldown state.
C32_TuneEqualsConstructor ==
    [][TunedDecide /\ AllGiven(obs.params) =>
          obs'.decision = obs'.constructed]_vars

\* C32, what the code does: the two agree for every parameter set of positive
\* numbers (and for absent parameters, where both keep the default); a
\* parameter given as 0 is 0 in the tuned engine and the default in the
\* constructed one.
C32_TuneEqualsConstructorUnlessZero ==
    /\ [][TunedDecide /\ AllPositive(obs.params) =>
             obs'.decision = obs'.constructed]_vars
    /\ [](obs.tuned =>
             /\ obs.params.jumpCooldown = Some(0) =>
                   /\ dinoEngine.jumpCooldown = 0
                   /\ DinoEngineWith(obs.params).jumpCooldown = 400
             /\ obs.params.jumpDistanceMin = Some(0) =>
                   /\ dinoEngine.jumpDistanceMin = 0
                   /\ DinoEngineWith(obs.params).jumpDistanceMin = 2
             /\ obs.params.jumpDistanceMax = Some(0) =>
                   /\ dinoEngine.jumpDistanceMax = 0
                   /\ DinoEngineWith(obs.params).jumpDistanceMax = 7
             /\ obs.params.batSafeDistance = Some(0) =>
                   /\ dinoEngine.batSafeDistance = 0
                   /\ DinoEngineWith(obs.params).batSafeDistance = 3
             /\ \A f \in {"jumpDistanceMin", "jumpDistanceMax",
                          "batSafeDistance", "jumpCooldown"} :
                   (IsSome(obs.params[f]) /\ Val(obs.params[f]) > 0) =>
                      /\ dinoEngine[f] = Val(obs.params[f])
                      /\ DinoEngineWith(obs.params)[f] = Val(obs.params[f]))

\* tuned to a cooldown of 0 and otherwise positive values: a second jump right
\* after the first, where the constructed engine (cooldown 400) waits
C32_Witness ==
    /\ obs.tuned
    /\ obs.params.jumpCooldown = Some(0)
    /\ obs.params.jumpDistanceMin = Some(3)
    /\ obs.params.jumpDistanceMax = Some(5)
    /\ obs.params.batSafeDistance = Some(2)
    /\ obs.calls = 2
    /\ dinoEngine.lastJumpTime = Epoch
    /\ Val(obs.decision).action = "jump"
    /\ Val(obs.constructed).action = "wait"

\* C39: decide changes no engine field except lastJumpTime, and that one
\* exactly when it returns jump, to the time of the call; a call that returns
\* start, restart, wait or none leaves the engine as it was.  Of the other
\* operations, reset() sets lastJumpTime (to 0) and tune() leaves it alone.
\* (Between calls the pinned clock moves the stored time into the past.)
C39_CooldownFrame ==
    /\ [][obs'.op = "decide" =>
             /\ Val(obs'.decision).action = "jump" =>
                   dinoEngine' = [dinoEngine EXCEPT !.lastJumpTime = Epoch]
             /\ Val(obs'.decision).action # "jump" => dinoEngine' = dinoEngine]_vars
    /\ [][obs'.op = "tune" /\ ~obs.tuned =>
             dinoEngine'.lastJumpTime = dinoEngine.lastJumpTime]_vars
    /\ [][obs'.op = "reset" /\ dinoEngine.lastJumpTime # 0 =>
             dinoEngine' = [dinoEngine EXCEPT !.lastJumpTime = 0]]_vars
    /\ [][obs'.op = "tick" /\ dinoEngine'.lastJumpTime # dinoEngine.lastJumpTime =>
             \E dt \in TickSteps :
                dinoEngine' = [dinoEngine EXCEPT !.lastJumpTime = Past(@, dt)]]_vars

\* a jump was recorded, time passed, a start decision left the time where it
\* was, and reset() has just cleared it
C39_Witness ==
    /\ obs.op = "reset"
    /\ obs.calls = 2
    /\ Val(obs.decision).action = "start"
    /\ dinoEngine.lastJumpTime = 0
    /\ obs.tuned

----------------------------------------------------------------------------
(* KeySender.sendWindows and send-keys.ps1 *)

\* The game sets its terminal's title to "LikuBuddy Game Hub [<pid>]"
\* (index.tsx:96).  sendWindows runs send-keys.ps1 with -Key and, when a target
\* pid is bound, -Id; the script activates a window by title and then sends
\* the key to whatever has the focus.  A desktop is the set of the titles of
\* the windows open on it.

TitleGeneric ==
    <<"L","i","k","u","B","u","d","d","y"," ","G","a","m","e"," ","H","u","b">>
TitlePartial == <<"L","i","k","u","B","u","d","d","y">>

DecimalDigits == <<"0","1","2","3","4","5","6","7","8","9">>
RECURSIVE Decimal(_)
Decimal(n) ==
    IF n < 10 THEN <<DecimalDigits[n + 1]>>
    ELSE Decimal(n \div 10) \o <<DecimalDigits[(n % 10) + 1]>>

\* "LikuBuddy Game Hub [$Id]"
pidTitle(id) == TitleGeneric \o <<" ", "[">> \o Decimal(id) \o <<"]">>

StartsWith(s, t) == Len(t) <= Len(s) /\ SubSeq(s, 1, Len(t)) = t
EndsWith(s, t) == Len(t) <= Len(s) /\ SubSeq(s, Len(s) - Len(t) + 1, Len(s)) = t

\* WScript.Shell.AppActivate(title): a window whose title is the string, or
\* else begins with it, or else ends with it, is activated; false when none is
titleMatches(w, title) == StartsWith(w, title) \/ EndsWith(w, title)
appActivate(title, windows) == \E w \in windows : titleMatches(w, title)

\* $maxRetries
maxRetries == 3

fallbackNeeded_always(success) == TRUE

\* "if (-not $success)" before each fallback (send-keys.ps1 lines 23, 28)
fallbackNeeded(success) == ~success

Attempt(retry, title, windows) ==
    [retry |-> retry, title |-> title, ok |-> appActivate(title, windows)]

\* one pass of the for loop (lines 17-31): the AppActivate calls it makes
tryTitles(id, retry, windows) ==
    LET a1 == IF id > 0 THEN <<Attempt(retry, pidTitle(id), windows)>> ELSE <<>>
        s1 == a1 # <<>> /\ a1[1].ok
        a2 == IF fallbackNeeded(s1)
              THEN <<Attempt(retry, TitleGeneric, windows)>> ELSE <<>>
        s2 == IF a2 # <<>> THEN a2[1].ok ELSE s1
        a3 == IF fallbackNeeded(s2)
              THEN <<Attempt(retry, TitlePartial, windows)>> ELSE <<>>
    IN  a1 \o a2 \o a3

\* $success after the AppActivate calls made so far
Succeeded(attempts) == attempts # <<>> /\ attempts[Len(attempts)].ok

\* the for loop (lines 16-38): desktops[r] is the desktop during pass r
RECURSIVE activate(_, _, _, _)
activate(id, retry, desktops, attempts) ==
    IF retry > maxRetries THEN attempts
    ELSE LET now == attempts \o tryTitles(id, retry, desktops[retry])
         IN  IF Succeeded(now) THEN now
             ELSE activate(id, retry + 1, desktops, now)

\* send-keys.ps1 -Key key [-Id id]: exit 1 when no window was activated or
\* SendKeys throws; otherwise the key has been sent
sendKeysScript(key, id, desktops, keyOk) ==
    LET attempts == activate(id, 1, desktops, <<>>)
        sent == Succeeded(attempts) /\ keyOk
    IN  [attempts |-> attempts, sent |-> sent, exit |-> IF sent THEN 0 ELSE 1]

\* sendWindows (lines 294-316): execSync throws on a non-zero exit and when the
\* script has not ended after 500 ms ("late": before or after its SendKeys)
sendWindows(ks, key, desktops, keyOk, killed) ==
    LET id == IF IsSome(ks.targetPid) /\ Val(ks.targetPid) # 0
              THEN Val(ks.targetPid) ELSE 0
        r == sendKeysScript(key, id, desktops, keyOk)
    IN  [id |-> id,
         attempts |-> r.attempts,
         sent |-> r.sent /\ killed # "beforeKeys",
         result |-> r.exit = 0 /\ killed = "no"]

\* another instance's window, the game's own, a window of another program
\* with the product's name in front, and an unrelated one
WindowTitles ==
    { pidTitle(EarlierPid), pidTitle(WriterPid),
      TitlePartial \o <<" ","-"," ","R","E","A","D","M","E">>,
      <<"N","o","t","e","p","a","d">> }

NoSendObs(op) ==
    [op |-> op, id |-> 0, desktops |-> <<>>, attempts |-> <<>>,
     sent |-> FALSE, result |-> FALSE]

WinInit ==
    /\ procs = {WriterPid}
    /\ file = None
    /\ host = [parseMs |-> 0]
    /\ parser = [lastModified |-> 0, cachedState |-> None]
    /\ keySender = KeySenderNew("windows")
    /\ dinoEngine = DinoEngineNew
    /\ player = AutoPlayerNew(Options("auto", 0, FALSE, 0), Epoch)
    /\ frame = NoFrame
    /\ pc = "idle"
    /\ obs = NoSendObs("new")

\* keySender.setTargetPid(pid)
WinBind ==
    /\ keySender.targetPid = None
    /\ keySender' = setTargetPid(keySender, Some(WriterPid))
    /\ obs' = NoSendObs("bind")
    /\ UNCHANGED <<file, procs, host, parser, dinoEngine, player, frame, pc>>

\* sendWindows(key), the desktop as it is during each pass of the script; one
\* call is followed before the pid is bound and one after
WinSend ==
    /\ obs.op # "send"
    /\ \E desktops \in [1..maxRetries -> SUBSET WindowTitles],
          key \in {"space", "enter"}, keyOk \in BOOLEAN,
          killed \in {"no", "beforeKeys", "afterKeys"} :
          LET r == sendWindows(keySender, key, desktops, keyOk, killed)
          IN  obs' = [op |-> "send", id |-> r.id, desktops |-> desktops,
                      attempts |-> r.attempts, sent |-> r.sent,
                      result |-> r.result]
    /\ UNCHANGED <<file, procs, host, parser, keySender, dinoEngine, player,
                   frame, pc>>

WinNext == WinBind \/ WinSend

WinSpec == WinInit /\ [][WinNext]_vars

\* the place of a title in the chain
Rank(title, id) ==
    CASE id > 0 /\ title = pidTitle(id) -> 1
      [] title = TitleGeneric -> 2
      [] title = TitlePartial -> 3
      [] OTHER -> 0

\* C33: on Windows the titles are tried in a fixed order: the title with the
\* bound pid, then the generic title, then the partial title, each matching
\* every window the one before it matches and more; a title is tried only
\* after every more precise one has failed (on that pass of the script); the
\* first success ends the search; and when no title matches on any pass, no
\* key is sent and the send reports false.
C33_FallbackChain ==
    obs.op = "send" =>
       LET a == obs.attempts
           first == IF obs.id > 0 THEN 1 ELSE 2
       IN  /\ Len(a) >= 1
           /\ a[1].retry = 1
           /\ Rank(a[1].title, obs.id) = first
           /\ \A i \in 1..Len(a) :
                 /\ a[i].ok => i = Len(a)
                 /\ a[i].ok = appActivate(a[i].title, obs.desktops[a[i].retry])
                 /\ i < Len(a) =>
                      IF a[i + 1].retry = a[i].retry
                      THEN Rank(a[i + 1].title, obs.id) = Rank(a[i].title, obs.id) + 1
                      ELSE /\ a[i + 1].retry = a[i].retry + 1
                           /\ Rank(a[i].title, obs.id) = 3
                           /\ Rank(a[i + 1].title, obs.id) = first
           /\ ~a[Len(a)].ok =>
                 /\ a[Len(a)].retry = maxRetries
                 /\ Rank(a[Len(a)].title, obs.id) = 3
                 /\ ~obs.sent
                 /\ ~obs.result
           /\ obs.sent => a[Len(a)].ok
           /\ obs.result => obs.sent
           /\ \A w \in WindowTitles :
                 /\ obs.id > 0 /\ titleMatches(w, pidTitle(obs.id)) =>
                       titleMatches(w, TitleGeneric)
                 /\ titleMatches(w, TitleGeneric) => titleMatches(w, TitlePartial)
           /\ \E w \in WindowTitles :
                 titleMatches(w, TitleGeneric) /\ ~titleMatches(w, pidTitle(WriterPid))
           /\ \E w \in WindowTitles :
                 titleMatches(w, TitlePartial) /\ ~titleMatches(w, TitleGeneric)

\* pid bound; the game's window is missing on the first pass and another
\* instance's window is open on the second: pid title, generic, partial, then
\* pid title again and the generic title, which succeeds, and the key is sent
C33_Witness ==
    /\ obs.op = "send"
    /\ obs.id = WriterPid
    /\ Len(obs.attempts) = 5
    /\ obs.attempts[5].retry = 2
    /\ obs.attempts[5].title = TitleGeneric
    /\ obs.attempts[5].ok
    /\ obs.result

----------------------------------------------------------------------------
(* The control loop while the game rewrites its Dino Run snapshot *)

\* the snapshots of a run of Dino Run, and one read while it is being written:
\* cut off before the "Dino Y" line
RewriteContents ==
    ReentryContents \cup
    { Content(Some(WriterPid), ScreenDinoRun, Some(12), Some("PLAYING"), None, None,
              Some(Obst(4, "CACTUS", 0)), {}) }

RewriteDeployments ==
    { [platform |-> "linux", parseMs |-> 5,
       options |-> Options("dino", 10, FALSE, 2)],
      [platform |-> "windows", parseMs |-> 0,
       options |-> Options("auto", 0, FALSE, 0)] }

RewriteInit ==
    /\ procs = {WriterPid}
    /\ file \in { Some([mtimeMs |-> 1, content |-> c]) : c \in ReentryContents }
    /\ parser = [lastModified |-> 0, cachedState |-> None]
    /\ \E dep \in RewriteDeployments :
          /\ host = [parseMs |-> dep.parseMs]
          /\ keySender = KeySenderNew(dep.platform)
          /\ player = AutoPlayerNew(dep.options, Epoch)
    /\ dinoEngine = DinoEngineNew
    /\ frame = NoFrame
    /\ pc = "idle"
    /\ obs = NewRunObs(0)

\* the game rewrites the file, and the controller's next read sees the new text
\* or the text cut off
GameRewrites ==
    /\ EnvTurn
    /\ Val(file).mtimeMs + 1 <= MaxWrites
    /\ \E c \in RewriteContents :
          file' = Some([mtimeMs |-> Val(file).mtimeMs + 1, content |-> c])
    /\ UNCHANGED <<procs, host, parser, keySender, dinoEngine, player, frame, pc, obs>>

RewriteNext ==
    \/ Start
    \/ Cycle
    \/ WakeInvalid
    \/ WakePacing
    \/ WakeRateSleep
    \/ NativeDone
    \/ Stop
    \/ GameExits
    \/ GameRewrites

RewriteSpec == RewriteInit /\ [][RewriteNext]_vars

\* a Dino Run snapshot in the playing phase without its dino or its obstacle
PlayingIncomplete(state) ==
    /\ state.dinoGameState = Some("PLAYING")
    /\ ~IsSome(state.dino) \/ ~IsSome(state.obstacle)

\* C34: a cycle whose live snapshot is in the playing phase and lacks the dino
\* or the obstacle sub-record ends normally: the engine's decision is none, the
\* engine (its cooldown time included) is as it was, no key is sent or counted,
\* and the cycle is counted like any other.
C34_IncompleteSnapshotNoOp ==
    [][(/\ DecisionStep
        /\ ResolvedGame(player.options, Val(frame'.state)) = "dino"
        /\ PlayingIncomplete(Val(frame'.state))) =>
          /\ obs'.action = "none"
          /\ player'.stats.decisions =
                [player.stats.decisions EXCEPT !["none"] = @ + 1]
          /\ dinoEngine' = AfterParse.dinoEngine
          /\ obs'.sendCalls = obs.sendCalls
          /\ obs'.injections = obs.injections
          /\ player'.stats.keySends = player.stats.keySends
          /\ keySender'.lastSendTime = AfterParse.keySender.lastSendTime
          /\ player'.stats.loops = player.stats.loops + 1
          /\ \/ pc' \in {"pacing", "loopTop"}
             \/ pc' = "done" /\ maxLoopsReached(player.options, player'.stats)]_vars

\* a jump was sent in the first cycle; the second cycle read a snapshot with a
\* cactus at distance 4 and no dino: decision none, one key in all
C34_Witness ==
    /\ player.stats.loops = 2
    /\ player.stats.decisions["jump"] = 1
    /\ player.stats.decisions["none"] = 1
    /\ player.stats.keySends = 1
    /\ obs.action = "none"
    /\ IsSome(frame.state)
    /\ PlayingIncomplete(Val(frame.state))
    /\ ~player.options.dryRun

\* the game whose sub-parser parseContent ran on the snapshot ("": none)
SubParserRun(state) ==
    CASE IsSome(state.dinoGameState) -> "dino"
      [] IsSome(state.snake) -> "snake"
      [] IsSome(state.tictactoe) -> "tictactoe"
      [] OTHER -> ""

\* the game detectGame resolves the snapshot to ("": none, its 'auto')
DetectedGame(state) ==
    IF detectGame(state) = "auto" THEN "" ELSE detectGame(state)

\* C35 as stated: for every screen name, detectGame resolves a snapshot to a
\* game if and only if parseContent ran that game's sub-parser on it.
C35_DetectionAgrees ==
    IsSome(obs.result) => DetectedGame(Val(obs.result)) = SubParserRun(Val(obs.result))

\* C35, what the code does: a snapshot with dino sub-records is resolved to
\* dino; one resolved to snake or tic-tac-toe has that game's sub-records; one
\* resolved to no game has no dino and no snake sub-records.  A screen name
\* with "dino" but neither "dinorun" nor "dino run" is resolved to dino without
\* dino sub-records, and one with "tictactoe" is parsed as tic-tac-toe and
\* resolved to no game.
C35_DetectionWiderThanParser ==
    IsSome(obs.result) =>
       LET state == Val(obs.result)
           screen == ToLowerCase(state.screen)
       IN  /\ SubParserRun(state) = "dino" => DetectedGame(state) = "dino"
           /\ DetectedGame(state) = "snake" <=>
                 SubParserRun(state) = "snake" /\ ~Includes(screen, Sub_dino)
           /\ DetectedGame(state) = "tictactoe" => SubParserRun(state) = "tictactoe"
           /\ DetectedGame(state) = "" => SubParserRun(state) \in {"", "tictactoe"}
           /\ (DetectedGame(state) = "dino" /\ SubParserRun(state) # "dino") =>
                 /\ Includes(screen, Sub_dino)
                 /\ ~Includes(screen, Sub_dinorun)
                 /\ ~Includes(screen, Sub_dino_run)
           /\ (DetectedGame(state) = "" /\ SubParserRun(state) = "tictactoe") =>
                 Includes(screen, Sub_tictactoe)

\* a live "Dino Tips" snapshot: resolved to dino, no sub-parser was run
C35_Witness ==
    /\ IsSome(obs.result)
    /\ Val(obs.result).screen = ScreenDinosaur
    /\ Val(obs.result).pidValid
    /\ detectGame(Val(obs.result)) = "dino"
    /\ SubParserRun(Val(obs.result)) = ""

----------------------------------------------------------------------------
(* KeySender.send called again before an earlier call has returned *)

\* A caller invokes send() on one KeySender without awaiting the call before.
\* Two calls are followed: frame and pc are the locals and the position of the
\* call the event loop runs next, host.other those of the other call.  In a
\* call's frame, loopStart is its "now" (line 271) and sleepMs what is left of
\* its rate-limit sleep.  Time passes in OverlapTick only, for both calls, and
\* never beyond the end of a sleep: a timer fires when it is due.

OverlapInit ==
    /\ file = None
    /\ procs = {}
    /\ host = [parseMs |-> 0, other |-> [frame |-> NoFrame, pc |-> "idle"]]
    /\ parser = [lastModified |-> 0, cachedState |-> None]
    /\ \E platform \in {"macos", "linux"} : keySender = KeySenderNew(platform)
    /\ dinoEngine = DinoEngineNew
    /\ player = AutoPlayerNew(Options("auto", 0, FALSE, 0), Epoch)
    /\ frame = NoFrame
    /\ pc = "idle"
    /\ obs = NewRunObs(0)

\* send(key) is invoked and runs to its first suspension
OverlapCall ==
    /\ pc = "idle"
    /\ obs.sendCalls < MaxSends
    /\ \E key \in {"space", "enter"} :
          Apply(send([World EXCEPT !.frame.loopStart = Epoch], key, SendEnv))
    /\ UNCHANGED <<file, procs, host>>

\* the rate-limit sleep of the call is over: the key is dispatched
OverlapWake ==
    /\ pc = "sendRateSleep"
    /\ frame.sleepMs = 0
    /\ Apply(sendDispatch(World, SendEnv))
    /\ UNCHANGED <<file, procs, host>>

\* the exec callback fires and the call resolves
OverlapReturns ==
    /\ pc = "sendNative"
    /\ Apply([World EXCEPT !.pc = "idle", !.frame = NoFrame,
                           !.obs.injecting = FALSE])
    /\ UNCHANGED <<file, procs, host>>

\* the event loop turns to the other call
OverlapResume ==
    /\ frame' = host.other.frame
    /\ pc' = host.other.pc
    /\ host' = [host EXCEPT !.other = [frame |-> frame, pc |-> pc]]
    /\ UNCHANGED <<file, procs, parser, keySender, dinoEngine, player, obs>>

\* what is left of a call's sleep (none: no timer is pending)
Pending(p, f) == IF p = "sendRateSleep" THEN {f.sleepMs} ELSE {}

\* the time after a dispatch that is followed (minInterval is 30)
SettleTime == 50

\* dt ms pass
OverlapTick ==
    /\ Epoch - keySender.lastSendTime < SettleTime
    /\ \E dt \in {10, 20} :
          /\ \A left \in Pending(pc, frame) \cup Pending(host.other.pc, host.other.frame) :
                dt <= left
          /\ Apply([Elapse(World, dt) EXCEPT !.frame.sleepMs = Max(0, @ - dt)])
          /\ host' = [host EXCEPT
                        !.other.frame.sleepMs = Max(0, @ - dt),
                        !.other.frame.loopStart = Past(@, dt)]
    /\ UNCHANGED <<file, procs>>

OverlapNext ==
    \/ OverlapCall
    \/ OverlapWake
    \/ OverlapReturns
    \/ OverlapResume
    \/ OverlapTick

OverlapSpec == OverlapInit /\ [][OverlapNext]_vars

\* a key is dispatched, and it is not the first
LaterDispatch == obs'.injections = obs.injections + 1 /\ obs.injections >= 1

\* the time since the dispatch before
SinceDispatch == Epoch - keySender.lastSendTime

\* C36 as stated: also when a send() is invoked while an earlier send() on the
\* same KeySender is still in its rate-limit sleep, two dispatches are at least
\* minInterval apart.
C36_RateLimitOverlapping ==
    [][LaterDispatch => SinceDispatch >= keySender.minInterval]_vars

\* C36, what the code does: a call waits out the interval counted from the
\* dispatch that was the latest when the call was made.  Its own dispatch is at
\* least minInterval after every dispatch made before the call; a dispatch made
\* while the call was asleep is not waited for.
C36_RateLimitAtCallTime ==
    /\ [][LaterDispatch =>
             \/ SinceDispatch >= keySender.minInterval
             \/ /\ pc = "sendRateSleep"
                /\ keySender.lastSendTime >= frame.loopStart]_vars
    /\ [][obs'.sendCalls = obs.sendCalls + 1 /\ pc' = "sendRateSleep" =>
             frame'.sleepMs = keySender.minInterval - SinceDispatch]_vars

\* a first key was dispatched; 10 ms later two calls were made one right after
\* the other; both slept 20 ms and both dispatched at the same instant
C36_Witness ==
    /\ obs.injections = 3
    /\ obs.sendCalls = 3
    /\ pc = "sendNative"
    /\ host.other.pc = "sendNative"
    /\ frame.loopStart = Epoch - 20
    /\ host.other.frame.loopStart = Epoch - 20
    /\ keySender.lastSendTime = Epoch

\* the decisions counted so far that have a key
KeyDecisions(stats) ==
    stats.decisions["jump"] + stats.decisions["start"] + stats.decisions["restart"]

\* no send() of the run is in progress: start() is between cycles or has returned
BetweenCycles == pc \in {"loopTop", "pacing", "sleepInvalid", "done"}

\* C37: whenever a cycle has been completed and no cycle is in progress,
\* keySends <= decisions[jump] + decisions[start] + decisions[restart] <= loops;
\* without dry run keySends is the number of send() calls that resolved true
\* (with dry run no send() is called and every key decision is counted).
C37_StatsAccounting ==
    (BetweenCycles /\ obs.runs = 1) =>
       /\ player.stats.keySends <= KeyDecisions(player.stats)
       /\ KeyDecisions(player.stats) <= player.stats.loops
       /\ \A a \in Actions : player.stats.decisions[a] >= 0
       /\ SumSeq([i \in 1..5 |->
                    player.stats.decisions[<<"jump", "start", "restart", "wait", "none">>[i]]])
             <= player.stats.loops
       /\ ~player.options.dryRun =>
             player.stats.keySends = obs.sendCalls - obs.failures
       /\ player.options.dryRun =>
             /\ obs.sendCalls = 0
             /\ player.stats.keySends = KeyDecisions(player.stats)

\* two cycles with a key decision each, one send resolved false and one true
C37_Witness ==
    /\ BetweenCycles
    /\ ~player.options.dryRun
    /\ player.stats.loops = 2
    /\ KeyDecisions(player.stats) = 2
    /\ obs.sendCalls = 2
    /\ obs.failures = 1
    /\ player.stats.keySends = 1

\* C40 as stated: on macOS and Linux a key is delivered only to a window that
\* was matched as the target: when the match fails, no key goes to any window
\* (and send resolves to false).
C40_OnlyToMatchedWindow ==
    keySender.platform \in {"macos", "linux"} => obs.strayKeys = 0

\* C40, what the code does: on Windows a key is sent only after a window was
\* activated, and a failed match is reported false.  On macOS and Linux the
\* window match decides nothing: every native call whose key command worked
\* while the game's window was not found typed its key into the window in
\* focus, resolved to true and was counted.
C40_WindowMatchDecidesOnWindowsOnly ==
    /\ keySender.platform = "windows" =>
          /\ obs.strayKeys = 0
          /\ obs.failures = obs.undelivered
    /\ keySender.platform \in {"macos", "linux"} =>
          /\ obs.strayKeys = obs.undelivered - obs.failures
          /\ (~player.options.dryRun /\ ~obs.injecting) =>
                obs.keysCounted = obs.injections - obs.failures

\* Linux: the only native call of the run missed the game's window, its key
\* went to the window in focus, and it was counted as sent
C40_Witness ==
    /\ keySender.platform = "linux"
    /\ obs.injections = 1
    /\ obs.strayKeys = 1
    /\ obs.failures = 0
    /\ player.stats.keySends = 1
    /\ ~obs.injecting

----------------------------------------------------------------------------
(* StateParser.parse and the game's writeFileSync, system call by system call *)

\* The game's logGameState (GameStateLogger.ts:26-30) rewrites the file with
\* fs.writeFileSync: the file is opened with truncation and then written, two
\* operations of another process.  parse() makes its own system calls in
\* between: the statSync of hasChanged (line 203), the statSync of parse (line
\* 219) and readFileSync (line 220).  Each operation of the writer stamps the
\* file with the file system's clock, which has or has not moved on since the
\* stamp before (its step is that of the file system's timestamps).  frame
\* holds the "stats" local of parse(); host.writer the text being written.
\* Snapshot timestamps are not followed here.

\* the file right after the truncation
TruncatedContent == Content(None, ScreenEmpty, None, None, None, None, None, {})

\* the texts the game writes
WrittenContents ==
    { Content(Some(WriterPid), ScreenDinoRun, Some(0), Some("START"), Some(0), Some(0),
              None, {"Next Obstacle: None"}),
      Content(Some(WriterPid), ScreenDinoRun, Some(12), Some("PLAYING"), Some(0), Some(0),
              Some(Obst(4, "CACTUS", 0)), {}) }

NoRaceObs ==
    [calls |-> 0,            \* calls of parse() begun
     forced |-> FALSE,       \* the latest call is parse(true)
     result |-> None,        \* what the latest call returned
     returned |-> FALSE,     \* the latest call has returned
     writes |-> 0,           \* writeFileSync calls begun
     sawWrite |-> FALSE,     \* the writer touched the file during the latest call
     sameStamp |-> FALSE]    \* some operation of the writer left mtime as it was

readAndCache_roundsUp(p, stats, f, table, t) ==
    LET st == parseContent(Val(f).content, t, table)
    IN  [parser |-> [lastModified |-> stats + 1, cachedState |-> Some(st)],
         result |-> Some(st)]

\* lines 220-224: read the file, keep the mtime of the stat made before the read
readAndCache(p, stats, f, table, t) ==
    LET st == parseContent(Val(f).content, t, table)
    IN  [parser |-> [lastModified |-> stats, cachedState |-> Some(st)],
         result |-> Some(st)]

RaceInit ==
    /\ procs = {WriterPid}
    /\ file \in { Some([mtimeMs |-> 1, content |-> c]) : c \in WrittenContents }
    /\ host = [parseMs |-> 0, writer |-> None]
    /\ parser = [lastModified |-> 0, cachedState |-> None]
    /\ keySender = KeySenderNew("linux")
    /\ dinoEngine = DinoEngineNew
    /\ player = AutoPlayerNew(Options("auto", 0, FALSE, 0), Epoch)
    /\ frame = [stats |-> None]
    /\ pc = "idle"
    /\ obs = NoRaceObs

\* the mtime an operation of the writer leaves
Stamps == { Val(file).mtimeMs, Val(file).mtimeMs + 1 }

\* writeFileSync opens the file: it is empty now
WriterTruncates ==
    /\ host.writer = None
    /\ obs.writes < MaxWrites
    /\ \E c \in WrittenContents, m \in Stamps :
          /\ c # Val(file).content
          /\ file' = Some([mtimeMs |-> m, content |-> TruncatedContent])
          /\ host' = [host EXCEPT !.writer = Some(c)]
          /\ obs' = [obs EXCEPT !.writes = @ + 1, !.sawWrite = TRUE,
                                !.sameStamp = @ \/ m = Val(file).mtimeMs]
    /\ UNCHANGED <<procs, parser, keySender, dinoEngine, player, frame, pc>>

\* writeFileSync writes the text and returns
WriterWrites ==
    /\ IsSome(host.writer)
    /\ \E m \in Stamps :
          /\ file' = Some([mtimeMs |-> m, content |-> Val(host.writer)])
          /\ host' = [host EXCEPT !.writer = None]
          /\ obs' = [obs EXCEPT !.sawWrite = TRUE,
                                !.sameStamp = @ \/ m = Val(file).mtimeMs]
    /\ UNCHANGED <<procs, parser, keySender, dinoEngine, player, frame, pc>>

\* parse(forceRefresh) up to its first statSync of its own: the cached snapshot
\* is returned when there is one and hasChanged() says no
ParseBegins ==
    /\ pc = "idle"
    /\ obs.calls < MaxParses
    /\ \E forceRefresh \in BOOLEAN :
          LET hit == ~forceRefresh /\ IsSome(parser.cachedState)
                        /\ ~hasChanged(parser, file)
          IN  /\ pc' = IF hit THEN "idle" ELSE "stat"
              /\ obs' = [obs EXCEPT !.calls = @ + 1, !.forced = forceRefresh,
                                    !.sawWrite = FALSE, !.returned = hit,
                                    !.result = IF hit THEN parser.cachedState
                                               ELSE None]
    /\ UNCHANGED <<file, procs, host, parser, keySender, dinoEngine, player, frame>>

\* const stats = fs.statSync(...)
ParseStats ==
    /\ pc = "stat"
    /\ frame' = [stats |-> Some(Val(file).mtimeMs)]
    /\ pc' = "read"
    /\ UNCHANGED <<file, procs, host, parser, keySender, dinoEngine, player, obs>>

\* readFileSync, parseContent, and the return
ParseReads ==
    /\ pc = "read"
    /\ LET r == readAndCache(parser, Val(frame.stats), file, procs, Epoch)
       IN  /\ parser' = r.parser
           /\ obs' = [obs EXCEPT !.result = r.result, !.returned = TRUE]
    /\ frame' = [stats |-> None]
    /\ pc' = "idle"
    /\ UNCHANGED <<file, procs, host, keySender, dinoEngine, player>>

RaceNext ==
    \/ WriterTruncates
    \/ WriterWrites
    \/ ParseBegins
    \/ ParseStats
    \/ ParseReads

RaceSpec == RaceInit /\ [][RaceNext]_vars

\* a parse() without forced refresh returns, and from its first system call on
\* the writer was not writing and did not touch the file
QuietParseReturns ==
    /\ obs'.returned
    /\ obs'.calls = obs.calls + 1 \/ ~obs.returned
    /\ ~obs'.forced
    /\ ~obs'.sawWrite
    /\ host.writer = None

\* the snapshot returned was parsed from the text the file holds
FromCurrentContent ==
    /\ IsSome(obs'.result)
    /\ Val(obs'.result).raw = Val(file).content

====
